---- MODULE Spec2Model ----
(***************************************************************************)
(* Verification model of the bulk data-loading engine of 0015427/MyTest:   *)
(*   src/MySQLScript.py         MySQLBatchProcessor, UniversalBatchInserter*)
(*   src/MutiTableBatchDeal.py  MultiTableBatchProcessor,                  *)
(*                              ResilientMultiTableProcessor               *)
(*                                                                         *)
(* One specification per entry point.  Every specification shares the      *)
(* variables below; a specification leaves the variables of the other      *)
(* entry points at their idle values.                                      *)
(*   SpecResolver    _order_table_configs_by_dependency (and the identical *)
(*                   _order_tables_by_dependency) as a pure function       *)
(***************************************************************************)
EXTENDS Integers, Sequences, FiniteSets, Bags, TLC

VARIABLES
    pc,               \* position of the running entry point (main thread)
    result,           \* its return value: "none" until it returns, then "True" / "False"
    table_configs,    \* the caller's table configs (sequence of records)
    ordered_configs,  \* what the resolver produced: [order, raised, maxDepth]
    data_list,        \* batch_execute: the rows to load
    batch_size,       \* batch_execute: rows per batch (the default size of a run)
    auto_optimize,    \* self.auto_optimize
    connection,       \* self.connection: NoConn or the id of the main connection
    conns,            \* the database sessions: id -> [state, pending, settings]
    committed,        \* the database: bag of the rows committed so far
    loop_k,           \* sequential executor: number of the batch the loop is at
    is_success,       \* the executor's local is_success
    exec_log,         \* the executemany calls of the run, [batch, raised] (and table)
    use_multithreading, \* batch_execute: which executor runs
    max_workers,      \* concurrent executor: size of the thread pool
    batches,          \* concurrent executor: the list of batches it formed
    futures,          \* concurrent executor: per batch [state, ret] of process_batch
    collected,        \* concurrent executor: futures as_completed has yielded
    table_batches,    \* related tables: name -> [max_batches, batch_size, data]
    batch_idx,        \* related tables: the round (cross-table batch) being run
    table_pos,        \* related tables: position in ordered_configs within the round
    formed,           \* batching: executor -> the batches it forms of the input
    id_mapping,       \* the registry: table -> (logical key -> physical id)
    processed_data,   \* _process_foreign_keys: what it returned, [raised, rows, ...]
    checkpoint_file,  \* the checkpoint file on disk: [state, completed_tables, id_mapping]
    checkpoint,       \* batch_insert_with_checkpoint: the checkpoint dict of the run
    start_index,      \* first table index of the run (0-based, as in the code)
    table_i,          \* index i of the table loop (0-based, as in the code)
    next_id,          \* table -> the AUTO_INCREMENT value of its next row
    runs,             \* calls of the entry point made so far on this processor
    run_log,          \* the results of the calls that returned before the current one
    caller,           \* entry point that runs _insert_single_table_with_mapping
    io_failures,      \* failed operations on the checkpoint file so far
    original_autocommit, \* batch_insert_multiple_tables: <<>> for None, else <<value>>
    id_mappings       \* self._id_mappings: mapping key -> list of ids

resolverVars == <<table_configs, ordered_configs>>
inputVars == <<data_list, batch_size, auto_optimize>>
dbVars == <<connection, conns, committed>>
seqVars == <<loop_k, exec_log>>
mtVars == <<use_multithreading, max_workers, batches, futures, collected>>
relVars == <<table_batches, batch_idx, table_pos>>
fkVars == <<id_mapping, processed_data>>
ckVars == <<checkpoint_file, checkpoint, start_index, table_i, next_id, runs, run_log, caller,
           io_failures>>
multiVars == <<original_autocommit>>
rsVars == <<id_mappings>>
vars == <<pc, result, resolverVars, inputVars, dbVars, is_success, seqVars, mtVars,
          relVars, formed, fkVars, ckVars, multiVars, rsVars>>

\* what the actions of one component never change
resolverFrame == <<result, table_configs, inputVars, dbVars, is_success, seqVars, mtVars,
                   relVars, formed, fkVars, ckVars, multiVars, rsVars>>
seqFrame == <<resolverVars, inputVars, mtVars, relVars, formed, fkVars, ckVars, multiVars, rsVars>>
mtFrame == <<resolverVars, inputVars, seqVars, use_multithreading, max_workers,
             relVars, formed, fkVars, ckVars, multiVars, rsVars>>
relFrame == <<table_configs, inputVars, is_success, seqVars, mtVars, formed, fkVars, ckVars,
             multiVars, rsVars>>
formFrame == <<result, resolverVars, inputVars, dbVars, is_success, seqVars, mtVars, relVars,
               fkVars, ckVars, multiVars, rsVars>>
fkFrame == <<result, resolverVars, inputVars, dbVars, is_success, seqVars, mtVars, relVars,
             formed, ckVars, multiVars, rsVars>>
ckFrame == <<ordered_configs, inputVars, is_success, exec_log, mtVars, relVars, formed,
            multiVars, rsVars>>
ckFrameNoLog == <<ordered_configs, inputVars, is_success, mtVars, relVars, formed, multiVars, rsVars>>

\* ------------------------------------------------------------------ bounds
\* longest list of declared parents of one table
MaxDeps == 2
\* most rows of one table
MaxRows == 3
\* largest batch size
MaxBatchSize == 2
\* largest thread pool
MaxWorkers == 2

\* ------------------------------------------------------------ small helpers
Range(s) == {s[i] : i \in DOMAIN s}
Min(a, b) == IF a < b THEN a ELSE b
IsInjective(s) == \A i, j \in DOMAIN s : s[i] = s[j] => i = j
SeqsUpTo(S, n) == UNION {[1..k -> S] : k \in 0..n}

\* ---------------------------------------------------------------- inputs
\* The tables of the user/order scenario (MutiTableBatchDeal.py 160-186), in the
\* order the caller lists them.  Dependencies are arbitrary, so every listing
\* order of every dependency graph over three tables is covered up to renaming.
TableNames == <<"users", "orders", "order_items">>
\* a parent may also be a table that is not among the supplied configs
ParentNames == Range(TableNames) \cup {"ghost"}
DepLists == {d \in SeqsUpTo(ParentNames, MaxDeps) : IsInjective(d)}

\* ------------------------------------------------------------ idle values
IdleResolver == table_configs = <<>> /\ ordered_configs = [order |-> <<>>, raised |-> "none", maxDepth |-> 0]
IdleInput == data_list = <<>> /\ batch_size = 1 /\ auto_optimize = FALSE
IdleDb == connection = <<"None", 0>> /\ conns = <<>> /\ committed = EmptyBag
IdleSeq == loop_k = 1 /\ exec_log = <<>>
IdleRel == table_batches = <<>> /\ batch_idx = 0 /\ table_pos = 1
IdleForm == formed = <<>>
IdleFk ==
    /\ id_mapping = <<>>
    /\ processed_data = [raised |-> "none", rows |-> <<>>, ref_table |-> "", logical_key |-> <<>>]
IdleCk ==
    /\ checkpoint_file = [state |-> "absent", completed_tables |-> 0, id_mapping |-> <<>>]
    /\ checkpoint = [completed_tables |-> 0, id_mapping |-> <<>>]
    /\ start_index = 0 /\ table_i = 0
    /\ next_id = <<>>
    /\ runs = 0 /\ run_log = <<>>
    /\ caller = "none"
    /\ io_failures = 0
IdleMulti == original_autocommit = <<>>
IdleRs == id_mappings = <<>>
IdleMt ==
    /\ use_multithreading = FALSE /\ max_workers = 1
    /\ batches = <<>> /\ futures = <<>> /\ collected = {}

\* --------------------------------------------------------------- resolver
\* MySQLScript.py 790-801 (and 433-445): dependencies[table_name] = the list of
\* declared parent tables, keyed by table name (names are unique in the model).
BuildDependencies(cfgs) ==
    [t \in {cfgs[i].table_name : i \in DOMAIN cfgs} |->
        LET i == CHOOSE j \in DOMAIN cfgs : cfgs[j].table_name = t
        IN  cfgs[i].dependencies]

\* dfs of the mutant: the table is appended before its parents are visited
RECURSIVE dfsPreOrder(_, _, _)
RECURSIVE dfsPreOrderDeps(_, _, _, _)
dfsPreOrder(table_name, dependencies, st) ==
    IF st.raised # "none" \/ table_name \in st.visited THEN st
    ELSE IF table_name \notin DOMAIN dependencies
         THEN [st EXCEPT !.visited = @ \cup {table_name}, !.raised = "KeyError"]
    ELSE dfsPreOrderDeps(dependencies[table_name], 1, dependencies,
             [st EXCEPT !.visited = @ \cup {table_name},
                        !.order = Append(@, table_name)])
dfsPreOrderDeps(deps, k, dependencies, st) ==
    IF k > Len(deps) THEN st
    ELSE dfsPreOrderDeps(deps, k + 1, dependencies,
                         dfsPreOrder(deps[k], dependencies, st))

\* dfs of the mutant: no visited test on entry, so a cycle is followed again
\* and again until the interpreter's stack is exhausted (RecursionError), here
\* as soon as more frames are open than any visit of distinct tables needs
RECURSIVE dfsUnmarked(_, _, _)
RECURSIVE dfsUnmarkedDeps(_, _, _, _)
dfsUnmarked(table_name, dependencies, st) ==
    IF st.raised # "none" THEN st
    ELSE IF st.depth > Cardinality(DOMAIN dependencies) + 1
         THEN [st EXCEPT !.raised = "RecursionError"]
    ELSE LET entered == [st EXCEPT !.visited = @ \cup {table_name},
                                   !.depth = @ + 1,
                                   !.maxDepth = IF st.depth + 1 > @ THEN st.depth + 1 ELSE @]
             after == IF table_name \in DOMAIN dependencies
                      THEN dfsUnmarkedDeps(dependencies[table_name], 1, dependencies, entered)
                      ELSE entered
         IN  IF after.raised # "none" THEN after
             ELSE IF table_name \notin DOMAIN dependencies
                  THEN [after EXCEPT !.raised = "KeyError"]
             ELSE [after EXCEPT !.order = Append(@, table_name), !.depth = @ - 1]
dfsUnmarkedDeps(deps, k, dependencies, st) ==
    IF k > Len(deps) \/ st.raised # "none" THEN st
    ELSE dfsUnmarkedDeps(deps, k + 1, dependencies, dfsUnmarked(deps[k], dependencies, st))

\* MySQLScript.py 807-815 (and 451-459): the recursive depth-first visit.
\* st = [visited, order, raised, depth, maxDepth]; depth is the number of dfs
\* frames on the call stack, maxDepth the deepest it got.  dependencies.get(t, [])
\* of a name that has no config is [], and config_map[t] then raises KeyError,
\* which unwinds every frame.
RECURSIVE dfs(_, _, _)
RECURSIVE dfsDeps(_, _, _, _)
dfs(table_name, dependencies, st) ==
    IF st.raised # "none" THEN st
    ELSE IF table_name \in st.visited THEN st
    ELSE LET entered == [st EXCEPT !.visited = @ \cup {table_name},
                                   !.depth = @ + 1,
                                   !.maxDepth = IF st.depth + 1 > @ THEN st.depth + 1 ELSE @]
             after == IF table_name \in DOMAIN dependencies
                      THEN dfsDeps(dependencies[table_name], 1, dependencies, entered)
                      ELSE entered
         IN  IF after.raised # "none" THEN after
             ELSE IF table_name \notin DOMAIN dependencies
                  THEN [after EXCEPT !.raised = "KeyError"]
             ELSE [after EXCEPT !.order = Append(@, table_name), !.depth = @ - 1]
dfsDeps(deps, k, dependencies, st) ==
    IF k > Len(deps) \/ st.raised # "none" THEN st
    ELSE dfsDeps(deps, k + 1, dependencies, dfs(deps[k], dependencies, st))

\* a resolver that walks the configs from the last listed to the first
\* (mutant of dfsAll)
RECURSIVE dfsAllReversed(_, _, _, _)
dfsAllReversed(cfgs, i, dependencies, st) ==
    IF i > Len(cfgs) \/ st.raised # "none" THEN st
    ELSE dfsAllReversed(cfgs, i + 1, dependencies,
                        dfs(cfgs[Len(cfgs) + 1 - i].table_name, dependencies, st))

\* MySQLScript.py 817-818: for table_name in dependencies: dfs(table_name)
\* (a dict iterates in insertion order: the order of the configs).
RECURSIVE dfsAll(_, _, _, _)
dfsAll(cfgs, i, dependencies, st) ==
    IF i > Len(cfgs) \/ st.raised # "none" THEN st
    ELSE dfsAll(cfgs, i + 1, dependencies, dfs(cfgs[i].table_name, dependencies, st))

\* MySQLScript.py 780-820 _order_table_configs_by_dependency; 431-464
\* _order_tables_by_dependency is the same code reading 'foreign_key_mapping'.
\* The configs of the returned list are named by their table_name.
OrderTableConfigsByDependency(cfgs) ==
    LET st == dfsAll(cfgs, 1, BuildDependencies(cfgs),
                     [visited |-> {}, order |-> <<>>, raised |-> "none",
                      depth |-> 0, maxDepth |-> 0])
    IN  [order |-> st.order, raised |-> st.raised, maxDepth |-> st.maxDepth]

NotResolved == [order |-> <<>>, raised |-> "none", maxDepth |-> 0]

\* ------------------------------------------------- specification: resolver
ResolverConfigs ==
    {[i \in DOMAIN TableNames |->
         [table_name |-> TableNames[i], dependencies |-> d[i]]] :
     d \in [DOMAIN TableNames -> DepLists]}

InitResolver ==
    /\ pc = "resolve"
    /\ result = "none"
    /\ table_configs \in ResolverConfigs
    /\ ordered_configs = NotResolved
    /\ IdleInput /\ IdleDb /\ is_success = TRUE /\ IdleSeq /\ IdleMt /\ IdleRel /\ IdleForm /\ IdleFk /\ IdleCk /\ IdleMulti /\ IdleRs

\* the call ordered = self._order_table_configs_by_dependency(table_configs)
Resolve ==
    /\ pc = "resolve"
    /\ ordered_configs' = OrderTableConfigsByDependency(table_configs)
    /\ pc' = "resolved"
    /\ UNCHANGED resolverFrame

NextResolver == Resolve

SpecResolver == InitResolver /\ [][NextResolver]_vars

\* ------------------------------------------------- dependency-graph notions
ConfigNames(cfgs) == {cfgs[i].table_name : i \in DOMAIN cfgs}
DeclaredParents(cfgs, t) ==
    UNION {Range(cfgs[i].dependencies) : i \in {j \in DOMAIN cfgs : cfgs[j].table_name = t}}
RECURSIVE AncestorsWithin(_, _, _)
AncestorsWithin(cfgs, t, n) ==
    IF n = 0 THEN {}
    ELSE LET ps == DeclaredParents(cfgs, t)
         IN  ps \cup UNION {AncestorsWithin(cfgs, p, n - 1) : p \in ps}
Ancestors(cfgs, t) == AncestorsWithin(cfgs, t, Len(cfgs) + 1)
IsCyclic(cfgs) == \E t \in ConfigNames(cfgs) : t \in Ancestors(cfgs, t)
AllParentsKnown(cfgs) ==
    \A t \in ConfigNames(cfgs) : DeclaredParents(cfgs, t) \subseteq ConfigNames(cfgs)
PositionsOf(order, t) == {i \in DOMAIN order : order[i] = t}
\* every occurrence of parent lies before every occurrence of child, and both occur
StrictlyBefore(order, parent, child) ==
    /\ PositionsOf(order, parent) # {}
    /\ PositionsOf(order, child) # {}
    /\ \A i \in PositionsOf(order, parent), j \in PositionsOf(order, child) : i < j
ParentsFirst(cfgs, order) ==
    \A t \in ConfigNames(cfgs) : \A p \in DeclaredParents(cfgs, t) :
        StrictlyBefore(order, p, t)

\* C1: for unique table names whose declared parents are acyclic and all among
\* the configs, the resolver returns normally and its order places every parent
\* strictly before every table that depends on it.
C1_ParentsBeforeChildren ==
    (pc = "resolved" /\ ~IsCyclic(table_configs) /\ AllParentsKnown(table_configs))
        => /\ ordered_configs.raised = "none"
           /\ ParentsFirst(table_configs, ordered_configs.order)

\* a child listed before its parent and a chain of two dependencies: the
\* resolver had to reorder
C1_Witness ==
    /\ pc = "resolved"
    /\ ~IsCyclic(table_configs) /\ AllParentsKnown(table_configs)
    /\ table_configs[1].dependencies = <<"orders">>
    /\ table_configs[2].dependencies = <<"order_items">>
    /\ ordered_configs.order = <<"order_items", "orders", "users">>

\* --------------------------------------------------------------- claim C30
InputNames(cfgs) == [i \in DOMAIN cfgs |-> cfgs[i].table_name]
InputPosition(cfgs, t) == CHOOSE i \in DOMAIN cfgs : cfgs[i].table_name = t
\* Kahn's algorithm with the stable tie-break: as long as a table is ready
\* (not emitted, every declared parent emitted), emit the earliest-listed one
RECURSIVE KahnFrom(_, _)
KahnFrom(cfgs, emitted) ==
    LET ready == {i \in DOMAIN cfgs :
                     /\ cfgs[i].table_name \notin Range(emitted)
                     /\ DeclaredParents(cfgs, cfgs[i].table_name) \subseteq Range(emitted)}
    IN  IF ready = {} THEN emitted
        ELSE KahnFrom(cfgs, Append(emitted,
                 cfgs[CHOOSE i \in ready : \A j \in ready : i <= j].table_name))
KahnOrder(cfgs) == KahnFrom(cfgs, <<>>)
Resolvable == pc = "resolved" /\ ~IsCyclic(table_configs) /\ AllParentsKnown(table_configs)

\* C30 as stated: for every acyclic input the resolver's output is the order
\* of Kahn's algorithm that always takes the earliest-listed ready table.
C30_KahnStableOrder ==
    Resolvable => ordered_configs.order = KahnOrder(table_configs)

\* a table stands before an earlier-listed one only as an ancestor of a table
\* listed no later than that one
MovedOnlyAsAncestor(cfgs, order) ==
    \A a, b \in DOMAIN order :
        (a < b /\ InputPosition(cfgs, order[a]) > InputPosition(cfgs, order[b]))
            => \E i \in 1..InputPosition(cfgs, order[b]) :
                   order[a] \in Ancestors(cfgs, cfgs[i].table_name)
\* C30 (amended): the resolver walks the tables in input order and emits each
\* one right after its ancestors that are not emitted yet.  An input that
\* already lists every parent before its children is returned unchanged, and
\* a table is moved ahead of an earlier-listed table only when it is an
\* ancestor of that table or of one listed before it.
C30_StableDepthFirst ==
    Resolvable =>
        /\ ordered_configs.raised = "none"
        /\ Len(ordered_configs.order) = Len(table_configs)
        /\ ParentsFirst(table_configs, InputNames(table_configs))
               => ordered_configs.order = InputNames(table_configs)
        /\ MovedOnlyAsAncestor(table_configs, ordered_configs.order)

\* two tables are ready at once (orders and order_items), and the resolver
\* emits the later-listed one first because the first table depends on it
C30_Witness ==
    /\ Resolvable
    /\ table_configs[1].dependencies = <<"order_items">>
    /\ table_configs[2].dependencies = <<>>
    /\ table_configs[3].dependencies = <<>>
    /\ ordered_configs.order = <<"order_items", "users", "orders">>
    /\ KahnOrder(table_configs) = <<"orders", "order_items", "users">>

\* --------------------------------------------------------------- claim C31
\* C31 as stated: on a cyclic input the depth-first sort recurses without
\* bound, so the resolver does not return normally.
C31_CycleRecursesForever ==
    (pc = "resolved" /\ IsCyclic(table_configs)) => ordered_configs.raised # "none"

\* C31 (amended): the visit marks a table before it descends into its
\* parents, so on every input, cyclic ones included, no more dfs frames are
\* ever open than there are tables plus one, and a cyclic input whose parents
\* are all among the configs makes the resolver return normally with every
\* table in its output.
C31_CycleTerminates ==
    pc = "resolved" =>
        /\ ordered_configs.maxDepth <= Len(table_configs) + 1
        /\ ordered_configs.raised \in {"none", "KeyError"}
        /\ (IsCyclic(table_configs) /\ AllParentsKnown(table_configs))
               => /\ ordered_configs.raised = "none"
                  /\ Range(ordered_configs.order) = ConfigNames(table_configs)

\* a cycle through all three tables: the visit goes three frames deep, comes
\* back to the first table, finds it marked and returns an order
C31_Witness ==
    /\ pc = "resolved"
    /\ table_configs[1].dependencies = <<"orders">>
    /\ table_configs[2].dependencies = <<"order_items">>
    /\ table_configs[3].dependencies = <<"users">>
    /\ ordered_configs.raised = "none"
    /\ ordered_configs.maxDepth = 3
    /\ ordered_configs.order = <<"order_items", "orders", "users">>

\* --------------------------------------------------------------- claim C35
IsPermutationOf(order, names) ==
    /\ Len(order) = Cardinality(names)
    /\ Range(order) = names
    /\ IsInjective(order)
\* C35: for unique table names whose declared parents are all among the
\* configs, acyclic or cyclic, the resolver returns normally and its output
\* holds every table config exactly once.
C35_OutputIsPermutation ==
    (pc = "resolved" /\ AllParentsKnown(table_configs)) =>
        /\ ordered_configs.raised = "none"
        /\ Len(ordered_configs.order) = Len(table_configs)
        /\ IsPermutationOf(ordered_configs.order, ConfigNames(table_configs))

\* a cycle between users and orders, and order_items reaching both of them
\* once more: every table is still emitted once
C35_Witness ==
    /\ pc = "resolved"
    /\ IsCyclic(table_configs)
    /\ table_configs[1].dependencies = <<"orders">>
    /\ table_configs[2].dependencies = <<"users">>
    /\ table_configs[3].dependencies = <<"users", "orders">>
    /\ ordered_configs.order = <<"orders", "users", "order_items">>

\* ============================================================ the database
\* The connection/transaction primitive the engine consumes (pymysql).  A
\* session holds the rows executed and not yet committed; pymysql.connect opens
\* every session with autocommit off, so executed rows stay pending until
\* commit() and are discarded by rollback().
DefaultSettings == [autocommit |-> 0, unique_checks |-> 1, foreign_key_checks |-> 1]
BulkSettings == [autocommit |-> 0, unique_checks |-> 0, foreign_key_checks |-> 0]
RestoredSettings == [autocommit |-> 1, unique_checks |-> 1, foreign_key_checks |-> 1]

\* MySQLScript.py 344-359 _apply_bulk_optimizations(conn)
ApplyBulkOptimizations(cs, c) ==
    IF c \in DOMAIN cs THEN [cs EXCEPT ![c].settings = BulkSettings] ELSE cs
\* MySQLScript.py 362-377 _restore_bulk_optimizations(conn)
RestoreBulkOptimizations(cs, c) ==
    IF c \in DOMAIN cs THEN [cs EXCEPT ![c].settings = RestoredSettings] ELSE cs

\* pymysql.connect(**self.config): a new open session with id c
DbConnect(cs, c) ==
    (c :> [state |-> "open", pending |-> <<>>, settings |-> DefaultSettings]) @@ cs
\* cursor.executemany(sql, rows): the rows join the session's transaction
DbExecuteMany(cs, c, rows) == [cs EXCEPT ![c].pending = @ \o rows]
\* connection.commit(): the database after the session's transaction commits
RECURSIVE SeqToBag(_)
SeqToBag(s) == IF s = <<>> THEN EmptyBag ELSE SetToBag({Head(s)}) (+) SeqToBag(Tail(s))
DbCommitted(db, cs, c) == db (+) SeqToBag(cs[c].pending)
\* the session after commit() or rollback(): its transaction is over
DbEndTransaction(cs, c) == [cs EXCEPT ![c].pending = <<>>]
\* connection.close(): a transaction still open is rolled back by the server
DbClose(cs, c) == [cs EXCEPT ![c].state = "closed", ![c].pending = <<>>]

\* the id of self.connection, and of the session process_batch opens for batch k
MainConn == <<"main", 0>>
LocalConn(k) == <<"local", k>>
NoConn == <<"None", 0>>
\* the sessions of a processor whose connect() has run before the call (43-57)
ConnectedBefore ==
    IF auto_optimize
    THEN ApplyBulkOptimizations(DbConnect(<<>>, MainConn), MainConn)
    ELSE DbConnect(<<>>, MainConn)
\* the value an entry point returns, as kept in result
Returned(b) == IF b THEN "True" ELSE "False"
CopiesOf(r) == CopiesIn(r, committed)

\* ================================================================ batching
\* the rows of a table: row k of table t is <<t, k>>
Rows(t, n) == [k \in 1..n |-> <<t, k>>]

\* Python's range(start, stop, step) for step > 0, as the sequence of its values
RECURSIVE PyRange(_, _, _)
PyRange(start, stop, step) ==
    IF start >= stop THEN <<>> ELSE <<start>> \o PyRange(start + step, stop, step)
\* Python's s[a:b] for 0 <= a <= b (indices past the end are clipped)
PySlice(s, a, b) == SubSeq(s, a + 1, Min(b, Len(s)))

\* a slicing that drops what does not fill a whole batch (mutant of SliceBatches)
SliceBatchesFloor(data, size) ==
    [k \in 1..(Len(data) \div size) |-> PySlice(data, (k - 1) * size, k * size)]

\* MySQLScript.py 116-117 (sequential loop) and 152 (list comprehension):
\*   data_list[i:i + batch_size] for i in range(0, len(data_list), batch_size)
SliceBatches(data, size) ==
    LET starts == PyRange(0, Len(data), size)
    IN  [k \in DOMAIN starts |-> PySlice(data, starts[k], starts[k] + size)]

\* ================================= sequential executor (MySQLScript.py 88-134)
\* rollback that leaves the failed batch's rows in the transaction (mutant)
SeqExceptNoRollback ==
    /\ pc = "seq_except"
    /\ is_success' = FALSE
    /\ pc' = "seq_return"
    /\ UNCHANGED <<result, dbVars, seqVars, seqFrame>>

\* a handler inside the loop: roll back and go on with the next batch (mutant)
SeqExceptContinue ==
    /\ pc = "seq_except"
    /\ conns' = DbEndTransaction(conns, connection)
    /\ is_success' = FALSE
    /\ loop_k' = loop_k + 1
    /\ pc' = "seq_loop"
    /\ UNCHANGED <<result, connection, committed, exec_log, seqFrame>>

\* 102-104: if not self.connection: if not self.connect(): return False
\* (connect, 43-57: applies the bulk settings when auto_optimize is set)
SeqEnsureConnection ==
    /\ pc = "seq_start"
    /\ \/ /\ connection # NoConn
          /\ pc' = "seq_loop"
          /\ UNCHANGED <<result, dbVars>>
       \/ /\ connection = NoConn
          /\ connection' = MainConn
          /\ conns' = IF auto_optimize
                      THEN ApplyBulkOptimizations(DbConnect(conns, MainConn), MainConn)
                      ELSE DbConnect(conns, MainConn)
          /\ pc' = "seq_loop"
          /\ UNCHANGED <<result, committed>>
       \/ /\ connection = NoConn         \* pymysql.connect raised
          /\ result' = Returned(FALSE)
          /\ pc' = "seq_done"
          /\ UNCHANGED dbVars
    /\ UNCHANGED <<is_success, seqVars, seqFrame>>

\* 116-118: the next batch_data is handed to cursor.executemany, which either
\* takes the whole batch or raises after j of its rows
SeqExecuteMany ==
    /\ pc = "seq_loop"
    /\ loop_k <= Len(SliceBatches(data_list, batch_size))
    /\ LET batch_data == SliceBatches(data_list, batch_size)[loop_k]
       IN  \/ /\ conns' = DbExecuteMany(conns, connection, batch_data)
              /\ exec_log' = Append(exec_log, [batch |-> loop_k, raised |-> FALSE])
              /\ pc' = "seq_commit"
           \/ \E j \in 0..(Len(batch_data) - 1) :
              /\ conns' = DbExecuteMany(conns, connection, SubSeq(batch_data, 1, j))
              /\ exec_log' = Append(exec_log, [batch |-> loop_k, raised |-> TRUE])
              /\ pc' = "seq_except"
    /\ UNCHANGED <<result, connection, committed, loop_k, is_success, seqFrame>>

\* 119: self.connection.commit(), then the loop goes on; a commit the database
\* refuses raises and commits nothing
SeqCommit ==
    /\ pc = "seq_commit"
    /\ \/ /\ committed' = DbCommitted(committed, conns, connection)
          /\ conns' = DbEndTransaction(conns, connection)
          /\ loop_k' = loop_k + 1
          /\ pc' = "seq_loop"
          /\ UNCHANGED exec_log
       \/ /\ pc' = "seq_except"
          /\ exec_log' = [exec_log EXCEPT ![Len(exec_log)].raised = TRUE]
          /\ UNCHANGED <<conns, committed, loop_k>>
    /\ UNCHANGED <<result, connection, is_success, seqFrame>>

\* 116, 123: the range is exhausted
SeqLoopEnd ==
    /\ pc = "seq_loop"
    /\ loop_k > Len(SliceBatches(data_list, batch_size))
    /\ pc' = "seq_return"
    /\ UNCHANGED <<result, dbVars, is_success, seqVars, seqFrame>>

\* a handler that undoes the load at table level: the rows of the batches
\* committed before the failure are removed again (mutant of SeqExcept)
SeqExceptUndoesLoad ==
    /\ pc = "seq_except"
    /\ conns' = DbEndTransaction(conns, connection)
    /\ committed' = EmptyBag
    /\ is_success' = FALSE
    /\ pc' = "seq_return"
    /\ UNCHANGED <<result, connection, seqVars, seqFrame>>

\* 125-128: except: self.connection.rollback(); is_success = False
SeqExcept ==
    /\ pc = "seq_except"
    /\ conns' = DbEndTransaction(conns, connection)
    /\ is_success' = FALSE
    /\ pc' = "seq_return"
    /\ UNCHANGED <<result, connection, committed, seqVars, seqFrame>>

\* 129-134: finally: ...; return is_success
SeqReturn ==
    /\ pc = "seq_return"
    /\ result' = Returned(is_success)
    /\ pc' = "seq_done"
    /\ UNCHANGED <<dbVars, is_success, seqVars, seqFrame>>

SingleTableInputs ==
    /\ data_list \in {Rows("test_users", n) : n \in 0..MaxRows}
    /\ batch_size \in 1..MaxBatchSize
    /\ auto_optimize \in BOOLEAN

InitSeq ==
    /\ pc = "seq_start"
    /\ result = "none"
    /\ IdleResolver
    /\ SingleTableInputs
    /\ committed = EmptyBag
    \* the processor is either not connected yet or holds an open main connection
    /\ \/ connection = NoConn /\ conns = <<>>
       \/ connection = MainConn /\ conns = ConnectedBefore
    /\ is_success = TRUE /\ IdleSeq /\ IdleMt /\ IdleRel /\ IdleForm /\ IdleFk /\ IdleCk /\ IdleMulti /\ IdleRs

NextSeq ==
    \/ SeqEnsureConnection
    \/ SeqExecuteMany
    \/ SeqCommit
    \/ SeqLoopEnd
    \/ SeqExcept
    \/ SeqReturn

SpecSeq == InitSeq /\ [][NextSeq]_vars

\* ============================ concurrent executor (MySQLScript.py 136-208)
\* futures[k] = [state, ret, applied]: where process_batch(batches[k]) stands,
\* what it returned, and how _apply_bulk_optimizations went on its session
\* ("none": not called, "all": the three SET statements ran, "part": one of
\* them raised and the error was swallowed).  state: "queued" (submitted, no worker yet), "connected",
\* "executed", "failed" (an exception is being handled), "committed",
\* "rolledback", "done".
Running == {k \in DOMAIN futures : futures[k].state \notin {"queued", "done"}}
Queued == {k \in DOMAIN futures : futures[k].state = "queued"}

\* 151-158, 193-195: form the batches, submit one process_batch per batch
MtSubmit ==
    /\ pc = "mt_start"
    /\ batches' = SliceBatches(data_list, batch_size)
    /\ futures' = [k \in DOMAIN SliceBatches(data_list, batch_size) |->
                      [state |-> "queued", ret |-> "none", applied |-> "none"]]
    /\ is_success' = TRUE
    /\ pc' = "mt_wait"
    /\ UNCHANGED <<result, dbVars, collected, mtFrame>>

\* 349-357: the settings of a session on which a SET statement of
\* _apply_bulk_optimizations raised: the statements before it took effect
\* (autocommit is 0 from the start), the error was logged and swallowed
PartlyOptimized ==
    {[autocommit |-> 0, unique_checks |-> u, foreign_key_checks |-> 1] : u \in {0, 1}}

\* 160-171: an idle worker takes the oldest queued batch and opens its own
\* connection (with the bulk settings under auto_optimize, all of them or, when
\* a SET statement fails, some of them); when connect raises, local_connection
\* is None and process_batch returns False
MtStart(k) ==
    /\ pc = "mt_wait"
    /\ k \in Queued /\ \A j \in Queued : k <= j
    /\ Cardinality(Running) < max_workers
    /\ \/ /\ conns' = IF auto_optimize
                      THEN ApplyBulkOptimizations(DbConnect(conns, LocalConn(k)), LocalConn(k))
                      ELSE DbConnect(conns, LocalConn(k))
          /\ futures' = [futures EXCEPT ![k].state = "connected",
                                        ![k].applied = IF auto_optimize THEN "all" ELSE "none"]
       \/ /\ auto_optimize
          /\ \E settings \in PartlyOptimized :
                conns' = [DbConnect(conns, LocalConn(k)) EXCEPT ![LocalConn(k)].settings = settings]
          /\ futures' = [futures EXCEPT ![k].state = "connected", ![k].applied = "part"]
       \/ /\ futures' = [futures EXCEPT ![k].state = "done", ![k].ret = "False"]
          /\ UNCHANGED conns
    /\ UNCHANGED <<pc, result, connection, committed, is_success, batches, collected, mtFrame>>

\* a worker that runs its batch on self.connection when the processor has one
\* (mutant of MtExecuteMany)
MtExecuteManyOnMain(k) ==
    /\ k \in DOMAIN futures /\ futures[k].state = "connected"
    /\ conns' = DbExecuteMany(conns, IF connection = MainConn THEN MainConn ELSE LocalConn(k),
                              batches[k])
    /\ futures' = [futures EXCEPT ![k].state = "executed"]
    /\ UNCHANGED <<pc, result, connection, committed, is_success, batches, collected, mtFrame>>

\* 172: local_cursor.executemany(sql, batch_data), whole or raising after j rows
MtExecuteMany(k) ==
    /\ k \in DOMAIN futures /\ futures[k].state = "connected"
    /\ \/ /\ conns' = DbExecuteMany(conns, LocalConn(k), batches[k])
          /\ futures' = [futures EXCEPT ![k].state = "executed"]
       \/ \E j \in 0..(Len(batches[k]) - 1) :
          /\ conns' = DbExecuteMany(conns, LocalConn(k), SubSeq(batches[k], 1, j))
          /\ futures' = [futures EXCEPT ![k].state = "failed"]
    /\ UNCHANGED <<pc, result, connection, committed, is_success, batches, collected, mtFrame>>

\* a worker that closes its connection without committing (mutant of MtCommit)
MtCommitForgotten(k) ==
    /\ k \in DOMAIN futures /\ futures[k].state = "executed"
    /\ futures' = [futures EXCEPT ![k].state = "committed", ![k].ret = "True"]
    /\ UNCHANGED <<pc, result, dbVars, is_success, batches, collected, mtFrame>>

\* 173-178: local_connection.commit(); return True  (or the commit is refused)
MtCommit(k) ==
    /\ k \in DOMAIN futures /\ futures[k].state = "executed"
    /\ \/ /\ committed' = DbCommitted(committed, conns, LocalConn(k))
          /\ conns' = DbEndTransaction(conns, LocalConn(k))
          /\ futures' = [futures EXCEPT ![k].state = "committed", ![k].ret = "True"]
       \/ /\ futures' = [futures EXCEPT ![k].state = "failed"]
          /\ UNCHANGED <<conns, committed>>
    /\ UNCHANGED <<pc, result, connection, is_success, batches, collected, mtFrame>>

\* 179-183: except: local_connection.rollback(); return False
MtExcept(k) ==
    /\ k \in DOMAIN futures /\ futures[k].state = "failed"
    /\ conns' = DbEndTransaction(conns, LocalConn(k))
    /\ futures' = [futures EXCEPT ![k].state = "rolledback", ![k].ret = "False"]
    /\ UNCHANGED <<pc, result, connection, committed, is_success, batches, collected, mtFrame>>

\* a worker that closes its connection only after a commit: the path through
\* the handler returns with the connection open (mutant of MtFinally)
MtFinallyLeaksAfterRollback(k) ==
    /\ k \in DOMAIN futures /\ futures[k].state \in {"committed", "rolledback"}
    /\ conns' = IF futures[k].state = "committed"
                THEN DbClose(RestoreBulkOptimizations(conns, LocalConn(k)), LocalConn(k))
                ELSE conns
    /\ futures' = [futures EXCEPT ![k].state = "done"]
    /\ UNCHANGED <<pc, result, connection, committed, is_success, batches, collected, mtFrame>>

\* 184-189: finally: restore the session settings and close the connection
MtFinally(k) ==
    /\ k \in DOMAIN futures /\ futures[k].state \in {"committed", "rolledback"}
    /\ conns' = DbClose(RestoreBulkOptimizations(conns, LocalConn(k)), LocalConn(k))
    /\ futures' = [futures EXCEPT ![k].state = "done"]
    /\ UNCHANGED <<pc, result, connection, committed, is_success, batches, collected, mtFrame>>

\* a collector that keeps only the last result (mutant of MtCollect)
MtCollectLast(k) ==
    /\ pc = "mt_wait"
    /\ k \in DOMAIN futures /\ futures[k].state = "done" /\ k \notin collected
    /\ is_success' = (futures[k].ret = "True")
    /\ collected' = collected \cup {k}
    /\ UNCHANGED <<pc, result, dbVars, batches, futures, mtFrame>>

\* 198-200: as_completed yields a finished future; a False result clears is_success
MtCollect(k) ==
    /\ pc = "mt_wait"
    /\ k \in DOMAIN futures /\ futures[k].state = "done" /\ k \notin collected
    /\ is_success' = IF futures[k].ret = "True" THEN is_success ELSE FALSE
    /\ collected' = collected \cup {k}
    /\ UNCHANGED <<pc, result, dbVars, batches, futures, mtFrame>>

\* 198, 205-208: every future was yielded; the pool shuts down; return is_success
MtReturn ==
    /\ pc = "mt_wait"
    /\ collected = DOMAIN futures
    /\ result' = Returned(is_success)
    /\ pc' = "mt_done"
    /\ UNCHANGED <<dbVars, is_success, batches, futures, collected, mtFrame>>

\* --------------------------------------------------------------- claim C28
IsPrefix(s, t) == Len(s) <= Len(t) /\ s = SubSeq(t, 1, Len(s))
OpenSessions == {c \in DOMAIN conns : conns[c].state = "open"}
\* the sessions a step opened, wrote to, ended a transaction on, or closed
TouchedSessions ==
    {c \in DOMAIN conns' : c \notin DOMAIN conns \/ conns'[c] # conns[c]}
\* the batches whose process_batch moved in a step
MovedBatches == {k \in DOMAIN futures' : k \notin DOMAIN futures \/ futures'[k] # futures[k]}
\* every open session besides the processor's own belongs to exactly one
\* batch in progress, holds rows of that batch only, and the processor's own
\* session is as it was before the call
SessionsExclusive ==
    /\ OpenSessions \ {MainConn} = {LocalConn(k) : k \in Running}
    /\ \A k \in Running : IsPrefix(conns[LocalConn(k)].pending, batches[k])
    /\ \A c \in DOMAIN conns :
           /\ c = MainConn \/ \E k \in DOMAIN futures : c = LocalConn(k)
           /\ conns[c].state # "open" => conns[c].pending = <<>>
    /\ connection = MainConn => conns[MainConn] = ConnectedBefore[MainConn]
    /\ connection = NoConn => MainConn \notin DOMAIN conns
\* a step touches at most the session of the one batch it moves
WorkerUsesOwnSession ==
    \A c \in TouchedSessions : \E k \in MovedBatches :
        c = LocalConn(k) /\ MovedBatches = {k}
\* C28: in the concurrent executor each batch runs on a session opened for
\* it alone: no session is used by two batches, every statement of a worker
\* goes to the session of its own batch, and the processor's main connection
\* is never used by a worker.
C28_ConnectionsExclusive ==
    /\ []SessionsExclusive
    /\ [][WorkerUsesOwnSession]_vars

\* two batches in progress at once, each with rows pending on its own
\* session, while the processor holds an open main connection
C28_Witness ==
    /\ pc = "mt_wait"
    /\ connection = MainConn
    /\ \E j, k \in Running :
           /\ j # k
           /\ conns[LocalConn(j)].pending # <<>>
           /\ conns[LocalConn(k)].pending # <<>>
           /\ conns[MainConn].state = "open"

\* --------------------------------------------------------------- claim C39
\* the sessions opened by workers
WorkerSessions == {c \in DOMAIN conns : c[1] = "local"}
\* C39: when _batch_execute_multithreaded returns, every batch has run to its
\* end and every connection a worker opened is closed, whether the batch was
\* committed, was rejected and rolled back, or ran on a session on which the
\* bulk settings could not be applied; a connection is closed as soon as its
\* process_batch has returned.
C39_WorkerConnectionsClosed ==
    /\ \A k \in DOMAIN futures :
          (futures[k].state = "done" /\ LocalConn(k) \in DOMAIN conns)
              => conns[LocalConn(k)].state = "closed"
    /\ pc = "mt_done" =>
          /\ \A k \in DOMAIN futures : futures[k].state = "done"
          /\ \A c \in WorkerSessions : conns[c].state = "closed"

\* the call returned after three batches: one committed, one rolled back, one
\* on a session whose SET statements failed; the three sessions are closed
C39_Witness ==
    /\ pc = "mt_done"
    /\ Cardinality(WorkerSessions) = 3
    /\ \E i, j, l \in DOMAIN futures :
          /\ i # j /\ j # l /\ i # l
          /\ futures[i].ret = "True" /\ futures[i].applied = "all"
          /\ futures[j].ret = "False" /\ futures[j].applied = "all"
          /\ futures[l].applied = "part"
    /\ \A c \in WorkerSessions : conns[c].state = "closed"

InitMt ==
    /\ pc = "mt_start"
    /\ result = "none"
    /\ IdleResolver
    /\ SingleTableInputs
    /\ committed = EmptyBag
    /\ \/ connection = NoConn /\ conns = <<>>
       \/ connection = MainConn /\ conns = ConnectedBefore
    /\ is_success = TRUE /\ IdleSeq
    /\ use_multithreading = TRUE
    /\ max_workers \in 1..MaxWorkers
    /\ batches = <<>> /\ futures = <<>> /\ collected = {}
    /\ IdleRel /\ IdleForm /\ IdleFk /\ IdleCk /\ IdleMulti /\ IdleRs

NextMt ==
    \/ MtSubmit
    \/ \E k \in 1..MaxRows : MtStart(k)
    \/ \E k \in 1..MaxRows : MtExecuteMany(k)
    \/ \E k \in 1..MaxRows : MtCommit(k)
    \/ \E k \in 1..MaxRows : MtExcept(k)
    \/ \E k \in 1..MaxRows : MtFinally(k)
    \/ \E k \in 1..MaxRows : MtCollect(k)
    \/ MtReturn

SpecMt == InitMt /\ [][NextMt]_vars

\* ===================================== batch_execute (MySQLScript.py 67-86)
\* 83-86: dispatch on use_multithreading
BatchExecute ==
    /\ pc = "batch_execute"
    /\ pc' = IF use_multithreading THEN "mt_start" ELSE "seq_start"
    /\ UNCHANGED <<result, resolverVars, inputVars, dbVars, is_success, seqVars, mtVars,
                   relVars, formed, fkVars, ckVars, multiVars, rsVars>>

InitBatchExecute ==
    /\ pc = "batch_execute"
    /\ result = "none"
    /\ IdleResolver
    /\ SingleTableInputs
    /\ committed = EmptyBag
    /\ \/ connection = NoConn /\ conns = <<>>
       \/ connection = MainConn /\ conns = ConnectedBefore
    /\ is_success = TRUE /\ IdleSeq
    /\ use_multithreading \in BOOLEAN
    /\ max_workers \in 1..MaxWorkers
    /\ batches = <<>> /\ futures = <<>> /\ collected = {}
    /\ IdleRel /\ IdleForm /\ IdleFk /\ IdleCk /\ IdleMulti /\ IdleRs

NextBatchExecute ==
    \/ BatchExecute
    \/ NextSeq
    \/ NextMt

SpecBatchExecute == InitBatchExecute /\ [][NextBatchExecute]_vars

\* ------------------------------------------------ notions for the executors
TheBatches == SliceBatches(data_list, batch_size)
NumBatches == Len(TheBatches)
\* rows executed in an open session and not committed
PendingRows == UNION {Range(conns[c].pending) : c \in DOMAIN conns}
AllCommittedOnce(rows) == \A i \in DOMAIN rows : CopiesOf(rows[i]) = 1
NoneCommitted(rows) == \A i \in DOMAIN rows : CopiesOf(rows[i]) = 0
NonePending(rows) == Range(rows) \cap PendingRows = {}
\* the sequential loop is past batch k (it committed), or stopped at it (it failed)
SeqSucceeded(k) ==
    /\ \E i \in DOMAIN exec_log : exec_log[i].batch = k /\ ~exec_log[i].raised
    /\ ~(pc = "seq_commit" /\ loop_k = k)
SeqFailed(k) ==
    /\ \E i \in DOMAIN exec_log : exec_log[i].batch = k /\ exec_log[i].raised
    /\ pc \in {"seq_return", "seq_done"}
MtSucceeded(k) == k \in DOMAIN futures /\ futures[k].ret = "True"
MtFailed(k) == k \in DOMAIN futures /\ futures[k].ret = "False"
SeqRunning == pc \in {"seq_start", "seq_loop", "seq_commit", "seq_except", "seq_return", "seq_done"}

\* C5: the sequential executor runs the batches one at a time, in row order, on
\* the main connection; when a batch fails, its transaction is rolled back, no
\* later batch is executed and the call returns failure.
C5_SequentialFailFast ==
    SeqRunning =>
        /\ \A i \in DOMAIN exec_log : exec_log[i].batch = i
        /\ DOMAIN conns \subseteq {MainConn}
        /\ \A k \in 1..NumBatches : SeqFailed(k) =>
              /\ NonePending(TheBatches[k])
              /\ NoneCommitted(TheBatches[k])
              /\ Len(exec_log) = k
              /\ \A j \in 1..(k - 1) : AllCommittedOnce(TheBatches[j])
              /\ \A j \in (k + 1)..NumBatches :
                    NoneCommitted(TheBatches[j]) /\ NonePending(TheBatches[j])
              /\ ~is_success
              /\ pc = "seq_done" => result = "False"

\* the second of three batches failed part-way: the first stays, the third never ran
C5_Witness ==
    /\ pc = "seq_done" /\ result = "False"
    /\ NumBatches = 3 /\ SeqSucceeded(1) /\ SeqFailed(2) /\ Len(exec_log) = 2
    /\ AllCommittedOnce(TheBatches[1])

\* --------------------------------------------------------------- claim C37
\* C37: a failed sequential load is not undone at table level: when batch k
\* (counted from 1) of _batch_execute_single_threaded fails, the committed
\* rows of the table at return are exactly the rows of batches 1..k-1, the
\* first (k-1)*batch_size rows of the input, and the call returns False.
C37_EarlierBatchesStay ==
    \A k \in 1..NumBatches : SeqFailed(k) =>
        /\ committed = SeqToBag(SubSeq(data_list, 1, (k - 1) * batch_size))
        /\ pc = "seq_done" => result = "False"

\* three rows in batches of two: the second batch failed, the two rows of the
\* first batch are what the table holds at return
C37_Witness ==
    /\ pc = "seq_done" /\ result = "False"
    /\ Len(data_list) = 3 /\ batch_size = 2
    /\ SeqFailed(2)
    /\ CopiesOf(data_list[1]) = 1 /\ CopiesOf(data_list[2]) = 1
    /\ CopiesOf(data_list[3]) = 0
    /\ BagCardinality(committed) = 2

\* C6: in the concurrent executor a failed batch rolls back only its own
\* transaction (the batches that returned True keep all their rows), every batch
\* has run to its commit or rollback when the call returns, and the call
\* returns failure exactly when some batch failed.
C6_ConcurrentFailureIsolated ==
    /\ \A k \in DOMAIN futures :
          /\ MtSucceeded(k) => AllCommittedOnce(batches[k]) /\ NonePending(batches[k])
          /\ MtFailed(k) => NoneCommitted(batches[k]) /\ NonePending(batches[k])
    /\ pc = "mt_done" =>
          /\ \A k \in DOMAIN futures : futures[k].state = "done"
          /\ DOMAIN futures = DOMAIN TheBatches
          /\ result = "False" <=> \E k \in DOMAIN futures : MtFailed(k)

\* three batches on two workers: the first failed, the later ones committed
C6_Witness ==
    /\ pc = "mt_done" /\ result = "False"
    /\ Len(futures) = 3 /\ max_workers = 2
    /\ MtFailed(1) /\ MtSucceeded(2) /\ MtSucceeded(3)
    /\ AllCommittedOnce(batches[2]) /\ AllCommittedOnce(batches[3])

\* C7: when no batch fails, for every pool size and completion order every
\* batch is committed exactly once on a connection of its own, the committed
\* rows are the input rows, each once, and the call returns success.
C7_ConcurrentSuccess ==
    (pc = "mt_done" /\ \A k \in DOMAIN futures : ~MtFailed(k)) =>
        /\ result = "True"
        /\ BagCardinality(committed) = Len(data_list)
        /\ AllCommittedOnce(data_list)
        /\ \A k \in DOMAIN futures :
              /\ LocalConn(k) \in DOMAIN conns
              /\ AllCommittedOnce(batches[k])
        /\ Len(futures) = NumBatches

\* three rows in batches of two (2 + 1) on two workers, all committed
C7_Witness ==
    /\ pc = "mt_done" /\ result = "True"
    /\ Len(data_list) = 3 /\ batch_size = 2 /\ max_workers = 2
    /\ Len(batches) = 2 /\ Len(batches[1]) = 2 /\ Len(batches[2]) = 1
    /\ BagCardinality(committed) = 3

\* C8: a batch is atomic in both modes of batch_execute: once a batch has been
\* processed, either all of its rows are committed (once) or none of them is,
\* and none of them is left in an open transaction.
C8_BatchAtomic ==
    \A k \in 1..NumBatches :
        LET processed == IF use_multithreading
                         THEN MtSucceeded(k) \/ MtFailed(k)
                         ELSE SeqSucceeded(k) \/ SeqFailed(k)
        IN  processed =>
              /\ AllCommittedOnce(TheBatches[k]) \/ NoneCommitted(TheBatches[k])
              /\ NonePending(TheBatches[k])

\* a batch of two rows failed after its first row (either mode): nothing of it stays
C8_Witness ==
    /\ pc \in {"seq_done", "mt_done"}
    /\ batch_size = 2 /\ Len(data_list) = 3
    /\ IF use_multithreading THEN MtFailed(1) /\ MtSucceeded(2)
                             ELSE SeqFailed(1)
    /\ NoneCommitted(TheBatches[1])

\* ================== batch_insert_related_tables (MySQLScript.py 527-634)
\* a config carries 'batch_size' (<<n>>) or not (<<>>)
\* 564: config.get('batch_size', batch_size)
TableBatchSize(config, default) ==
    IF config.batch_size = <<>> THEN default ELSE config.batch_size[1]
\* 566: (data_count + table_batch_size - 1) // table_batch_size
TableMaxBatches(data_count, size) == (data_count + size - 1) \div size
ConfigNamed(cfgs, t) == cfgs[CHOOSE i \in DOMAIN cfgs : cfgs[i].table_name = t]
\* 562-571: table_batches[table_name] = {max_batches, batch_size, data}
BuildTableBatches(cfgs, order, default) ==
    [t \in Range(order) |->
        LET config == ConfigNamed(cfgs, t)
            size == TableBatchSize(config, default)
        IN  [max_batches |-> TableMaxBatches(Len(config.data), size),
             batch_size |-> size,
             data |-> config.data]]
\* 574: max(...) if table_batches else 0
GlobalMaxBatches(tb) ==
    IF DOMAIN tb = {} THEN 0
    ELSE LET counts == {tb[t].max_batches : t \in DOMAIN tb}
         IN  CHOOSE m \in counts : \A c \in counts : c <= m
\* 593-597: the rows of a table in round idx (<<>>: the table has no data left)
RoundSlice(table_data, size, idx) ==
    LET start_idx == idx * size
        end_idx == Min((idx + 1) * size, Len(table_data))
    IN  IF start_idx < Len(table_data) THEN PySlice(table_data, start_idx, end_idx) ELSE <<>>
\* 578-602: the batches of table t over all rounds
RelatedBatches(tb, t) ==
    LET slices == [r \in 1..GlobalMaxBatches(tb) |->
                      RoundSlice(tb[t].data, tb[t].batch_size, r - 1)]
    IN  SelectSeq(slices, LAMBDA b : b # <<>>)

\* a round that walks the tables in the reverse of resolution order (mutant)
RelConfigAtReversed(pos) ==
    ordered_configs.order[Len(ordered_configs.order) + 1 - pos]
\* 585: for config in ordered_configs
RelConfigAt(pos) == ordered_configs.order[pos]

\* 546-550: if not self.connect(): return False  (connect: 43-57)
RelConnect ==
    /\ pc = "rel_start"
    /\ \/ /\ connection' = MainConn
          /\ conns' = IF auto_optimize
                      THEN ApplyBulkOptimizations(DbConnect(conns, MainConn), MainConn)
                      ELSE DbConnect(conns, MainConn)
          /\ pc' = "rel_resolve"
          /\ UNCHANGED result
       \/ /\ result' = Returned(FALSE)
          /\ pc' = "rel_done"
          /\ UNCHANGED <<connection, conns>>
    /\ UNCHANGED <<committed, ordered_configs, relVars, relFrame>>

\* a resolution whose KeyError is dropped: the run goes on with the tables
\* that were ordered before the unknown parent was met (mutant of RelResolve)
RelResolveDropsError ==
    /\ pc = "rel_resolve"
    /\ LET ordered == OrderTableConfigsByDependency(table_configs)
       IN  /\ ordered_configs' = [ordered EXCEPT !.raised = "none"]
           /\ table_batches' = BuildTableBatches(table_configs, ordered.order, batch_size)
           /\ batch_idx' = 0
           /\ pc' = "rel_round"
           /\ UNCHANGED table_pos
    /\ UNCHANGED <<result, dbVars, relFrame>>

\* 552-577: resolve the order (a KeyError goes to the outer handler), count the
\* batches of every table
RelResolve ==
    /\ pc = "rel_resolve"
    /\ LET ordered == OrderTableConfigsByDependency(table_configs)
       IN  /\ ordered_configs' = ordered
           /\ IF ordered.raised # "none"
              THEN pc' = "rel_outer_except" /\ UNCHANGED relVars
              ELSE /\ table_batches' = BuildTableBatches(table_configs, ordered.order, batch_size)
                   /\ batch_idx' = 0
                   /\ pc' = "rel_round"
                   /\ UNCHANGED table_pos
    /\ UNCHANGED <<result, dbVars, relFrame>>

\* 578-583: the next round starts a transaction; 621-624: no round left, return True
RelRound ==
    /\ pc = "rel_round"
    /\ IF batch_idx < GlobalMaxBatches(table_batches)
       THEN /\ table_pos' = 1
            /\ pc' = "rel_table"
            /\ UNCHANGED result
       ELSE /\ result' = Returned(TRUE)
            /\ pc' = "rel_done"
            /\ UNCHANGED table_pos
    /\ UNCHANGED <<dbVars, ordered_configs, table_batches, batch_idx, relFrame>>

\* 585-604: the next table of the round: executemany of its slice, if it has one
RelTable ==
    /\ pc = "rel_table"
    /\ table_pos <= Len(ordered_configs.order)
    /\ LET info == table_batches[RelConfigAt(table_pos)]
           batch_data == RoundSlice(info.data, info.batch_size, batch_idx)
       IN  \/ /\ conns' = IF batch_data # <<>>
                          THEN DbExecuteMany(conns, connection, batch_data)
                          ELSE conns
              /\ table_pos' = table_pos + 1
              /\ pc' = "rel_table"
           \/ \E j \in 0..(Len(batch_data) - 1) :
              /\ conns' = DbExecuteMany(conns, connection, SubSeq(batch_data, 1, j))
              /\ pc' = "rel_except"
              /\ UNCHANGED table_pos
    /\ UNCHANGED <<result, connection, committed, ordered_configs, table_batches,
                   batch_idx, relFrame>>

\* 606-611: commit the round (the current batch of every table)
RelCommit ==
    /\ pc = "rel_table"
    /\ table_pos > Len(ordered_configs.order)
    /\ \/ /\ committed' = DbCommitted(committed, conns, connection)
          /\ conns' = DbEndTransaction(conns, connection)
          /\ batch_idx' = batch_idx + 1
          /\ pc' = "rel_round"
       \/ /\ pc' = "rel_except"
          /\ UNCHANGED <<conns, committed, batch_idx>>
    /\ UNCHANGED <<result, connection, ordered_configs, table_batches, table_pos, relFrame>>

\* a handler that commits what the round executed before it failed
\* (mutant of RelExcept)
RelExceptCommits ==
    /\ pc = "rel_except"
    /\ committed' = DbCommitted(committed, conns, connection)
    /\ conns' = DbEndTransaction(conns, connection)
    /\ result' = Returned(FALSE)
    /\ pc' = "rel_done"
    /\ UNCHANGED <<connection, ordered_configs, relVars, relFrame>>

\* 613-619: the round failed: rollback, return False
RelExcept ==
    /\ pc = "rel_except"
    /\ conns' = DbEndTransaction(conns, connection)
    /\ result' = Returned(FALSE)
    /\ pc' = "rel_done"
    /\ UNCHANGED <<connection, committed, ordered_configs, relVars, relFrame>>

\* 626-630: the outer handler: rollback, return False
RelOuterExcept ==
    /\ pc = "rel_outer_except"
    /\ conns' = DbEndTransaction(conns, connection)
    /\ result' = Returned(FALSE)
    /\ pc' = "rel_done"
    /\ UNCHANGED <<connection, committed, ordered_configs, relVars, relFrame>>

\* dependency declarations of the three tables: none; the chain listed parents
\* first; the chain listed children first; two tables naming each other; a
\* parent that has no config; a table with two parents
RelDependencyCases ==
    { <<<<>>, <<>>, <<>>>>,
      <<<<>>, <<"users">>, <<"orders">>>>,
      <<<<"orders">>, <<"order_items">>, <<>>>>,
      <<<<"orders">>, <<"users">>, <<>>>>,
      <<<<>>, <<"ghost">>, <<>>>>,
      <<<<>>, <<>>, <<"orders", "users">>>> }

\* users carries its own batch_size, orders and order_items take the default
RelatedConfigs(depCases) ==
    {[i \in DOMAIN TableNames |->
         [table_name |-> TableNames[i],
          dependencies |-> d[i],
          data |-> Rows(TableNames[i], n[i]),
          batch_size |-> IF i = 1 THEN <<b>> ELSE <<>>]] :
     d \in depCases,
     n \in [DOMAIN TableNames -> 0..MaxRows],
     b \in 1..MaxBatchSize}

InitRelated ==
    /\ pc = "rel_start"
    /\ result = "none"
    /\ table_configs \in RelatedConfigs(RelDependencyCases)
    /\ ordered_configs = NotResolved
    /\ data_list = <<>>
    /\ batch_size \in 1..MaxBatchSize
    /\ auto_optimize \in BOOLEAN
    /\ IdleDb /\ is_success = TRUE /\ IdleSeq /\ IdleMt /\ IdleRel /\ IdleForm /\ IdleFk /\ IdleCk /\ IdleMulti /\ IdleRs

NextRelated ==
    \/ RelConnect
    \/ RelResolve
    \/ RelRound
    \/ RelTable
    \/ RelCommit
    \/ RelExcept
    \/ RelOuterExcept

SpecRelated == InitRelated /\ [][NextRelated]_vars

\* -------------------------------------------- notions for the related run
\* rows executed by some session (pending) or committed
Present(row) == row \in PendingRows \/ CopiesOf(row) > 0
RelResolved == pc \in {"rel_round", "rel_table", "rel_except", "rel_done"}
                  /\ ordered_configs.raised = "none" /\ DOMAIN table_batches # {}
\* the round in which row i (1-based) of table t is inserted
RoundOf(t, i) == (i - 1) \div table_batches[t].batch_size
OrderPositions == DOMAIN ordered_configs.order
TableAt(p) == ordered_configs.order[p]
RowsOfTable(t) == {<<t, i>> : i \in 1..Len(table_batches[t].data)}

\* C2 (as claimed): a configuration with a dependency cycle is rejected: the
\* run returns failure, nothing is inserted, and no connection was opened.
C2_CycleRejected ==
    (pc = "rel_done" /\ IsCyclic(table_configs) /\ AllParentsKnown(table_configs))
        => /\ result = "False"
           /\ committed = EmptyBag
           /\ connection = NoConn

RoundFailed == RelResolved /\ pc = "rel_done" /\ result = "False"
C36_UnknownParentFails ==
    ~AllParentsKnown(table_configs) =>
        /\ committed = EmptyBag
        /\ PendingRows = {}
        /\ pc \notin {"rel_round", "rel_table", "rel_except"}
        /\ pc = "rel_done" => result = "False"

\* orders names a parent without a config; users, listed first, has rows and
\* was already ordered when the KeyError came; the connection was opened, the
\* call is back with False
C36_Witness ==
    /\ pc = "rel_done" /\ result = "False"
    /\ table_configs[2].dependencies = <<"ghost">>
    /\ Len(table_configs[1].data) = 2
    /\ connection = MainConn
    /\ ordered_configs.raised = "KeyError"
    /\ ordered_configs.order = <<"users">>

\* ==================================== batching of the three executors
\* The batches each executor forms of its input, as a pure function of the
\* input: data_list with batch_size for the two modes of batch_execute, the
\* configs with the default batch_size for batch_insert_related_tables.
\* 110-117: the batches of the sequential loop
FormSequential ==
    /\ pc = "form"
    /\ "sequential" \notin DOMAIN formed
    /\ formed' = ("sequential" :> SliceBatches(data_list, batch_size)) @@ formed
    /\ UNCHANGED <<pc, formFrame>>

\* 151-152: the list of batches of the concurrent executor
FormMultithreaded ==
    /\ pc = "form"
    /\ "multithreaded" \notin DOMAIN formed
    /\ formed' = ("multithreaded" :> SliceBatches(data_list, batch_size)) @@ formed
    /\ UNCHANGED <<pc, formFrame>>

\* 561-602: the slices of every table over the rounds, per table of the configs
FormRelated ==
    /\ pc = "form"
    /\ "related" \notin DOMAIN formed
    /\ LET names == [i \in DOMAIN table_configs |-> table_configs[i].table_name]
           tb == BuildTableBatches(table_configs, names, batch_size)
       IN  formed' = ("related" :> [i \in DOMAIN names |-> RelatedBatches(tb, names[i])])
                     @@ formed
    /\ UNCHANGED <<pc, formFrame>>

InitBatching ==
    /\ pc = "form"
    /\ result = "none"
    /\ table_configs \in RelatedConfigs({<<<<>>, <<>>, <<>>>>})
    /\ ordered_configs = NotResolved
    /\ data_list \in {Rows("test_users", n) : n \in 0..MaxRows}
    /\ batch_size \in 1..MaxBatchSize
    /\ auto_optimize = FALSE
    /\ IdleDb /\ is_success = TRUE /\ IdleSeq /\ IdleMt /\ IdleRel /\ IdleForm /\ IdleFk /\ IdleCk /\ IdleMulti /\ IdleRs

NextBatching ==
    \/ FormSequential
    \/ FormMultithreaded
    \/ FormRelated

SpecBatching == InitBatching /\ [][NextBatching]_vars

\* ceil(n / b), not computed the way the code computes it
CeilDiv(n, b) == CHOOSE k \in 0..n : k * b >= n /\ (k = 0 \/ (k - 1) * b < n)
RECURSIVE Flatten(_)
Flatten(bs) == IF bs = <<>> THEN <<>> ELSE Head(bs) \o Flatten(Tail(bs))
\* bs partitions data into ceil(N/B) batches, all of B rows but possibly the last
IsBatching(bs, data, b) ==
    /\ Len(bs) = CeilDiv(Len(data), b)
    /\ \A k \in 1..(Len(bs) - 1) : Len(bs[k]) = b
    /\ Len(bs) > 0 => Len(bs[Len(bs)]) \in 1..b
    /\ Flatten(bs) = data

\* C4: for N rows and batch size B each executor forms exactly ceil(N/B)
\* batches, all of B rows except possibly the last, that together hold each
\* row exactly once in order (no batch for N = 0).
C4_ExactBatching ==
    /\ "sequential" \in DOMAIN formed
          => IsBatching(formed["sequential"], data_list, batch_size)
    /\ "multithreaded" \in DOMAIN formed
          => IsBatching(formed["multithreaded"], data_list, batch_size)
    /\ "related" \in DOMAIN formed
          => \A i \in DOMAIN table_configs :
                IsBatching(formed["related"][i], table_configs[i].data,
                           TableBatchSize(table_configs[i], batch_size))

\* three rows in batches of two for batch_execute; in the related run users has
\* three batches of one row while orders has two batches (2 + 1) and order_items none
C4_Witness ==
    /\ DOMAIN formed = {"sequential", "multithreaded", "related"}
    /\ Len(data_list) = 3 /\ batch_size = 2
    /\ Len(formed["sequential"]) = 2 /\ Len(formed["multithreaded"][2]) = 1
    /\ Len(formed["related"][1]) = 3
    /\ Len(formed["related"][2]) = 2 /\ Len(formed["related"][2][2]) = 1
    /\ formed["related"][3] = <<>>

\* ================ foreign-key rewriter (MutiTableBatchDeal.py 85-106)
\* A logical key is <<type, text>>: the text key "7" is <<"str", "7">>, the
\* integer key 7 is <<"int", "7">>.  Physical ids are integers.
StrKey(text) == <<"str", text>>
\* 100: id_mapping.get(ref_table, {}).get(logical_key) is not None
MappingHas(idm, ref_table, logical_key) ==
    ref_table \in DOMAIN idm /\ logical_key \in DOMAIN idm[ref_table]
\* 90: table_config.get('foreign_keys', {}): column -> <<ref_table, ref_key_field>>
FkReferences(config) == config.foreign_keys
\* the cells (row, column) the loops of 93-96 visit that name a foreign key
\* whose logical key has no id
MissingCells(data, columns, idm, config) ==
    {rc \in (DOMAIN data) \X (DOMAIN columns) :
        /\ columns[rc[2]] \in DOMAIN FkReferences(config)
        /\ ~MappingHas(idm, FkReferences(config)[columns[rc[2]]][1], data[rc[1]][rc[2]])}
\* the first of them in loop order (row by row, column by column)
FirstCell(cells) ==
    CHOOSE rc \in cells : \A o \in cells :
        rc[1] < o[1] \/ (rc[1] = o[1] /\ rc[2] <= o[2])

\* a rewriter that takes some id of the parent table, whichever key the row
\* names, as _update_foreign_keys of MySQLScript.py does (mutant)
ProcessForeignKeysAnyParent(data, columns, idm, config) ==
    [raised |-> "none",
     rows |-> [r \in DOMAIN data |->
                 [c \in DOMAIN data[r] |->
                     IF c \in DOMAIN columns /\ columns[c] \in DOMAIN FkReferences(config)
                        /\ FkReferences(config)[columns[c]][1] \in DOMAIN idm
                        /\ DOMAIN idm[FkReferences(config)[columns[c]][1]] # {}
                     THEN LET m == idm[FkReferences(config)[columns[c]][1]]
                          IN  m[CHOOSE k \in DOMAIN m : TRUE]
                     ELSE data[r][c]]],
     ref_table |-> "", logical_key |-> <<>>]

\* 85-106 _process_foreign_keys(data_list, columns, id_mapping, table_config):
\* the rewritten rows, or ValueError for the first key that has no id
ProcessForeignKeys(data, columns, idm, config) ==
    LET fk_references == FkReferences(config)
        missing == MissingCells(data, columns, idm, config)
    IN  IF missing # {}
        THEN LET rc == FirstCell(missing)
             IN  [raised |-> "ValueError", rows |-> <<>>,
                  ref_table |-> fk_references[columns[rc[2]]][1],
                  logical_key |-> data[rc[1]][rc[2]]]
        ELSE [raised |-> "none",
              rows |-> [r \in DOMAIN data |->
                          [c \in DOMAIN data[r] |->
                              IF c \in DOMAIN columns /\ columns[c] \in DOMAIN fk_references
                              THEN idm[fk_references[columns[c]][1]][data[r][c]]
                              ELSE data[r][c]]],
              ref_table |-> "", logical_key |-> <<>>]

\* ------------------------------------------- specification: the rewriter
\* orders-like rows <<order_code, user_code, amount>> over two logical keys
FkColumns == <<"order_code", "user_code", "amount">>
FkKeys == {StrKey("k1"), StrKey("k2")}
FkRows == {<<a, b, "amount">> : a \in FkKeys, b \in FkKeys}
\* no foreign key; user_code -> users; order_code -> products and user_code -> users
FkCases ==
    { <<>>,
      ("user_code" :> <<"users", "user_code">>),
      ("order_code" :> <<"products", "product_code">>) @@ ("user_code" :> <<"users", "user_code">>) }
\* registries: users absent or mapping any part of the keys to ids 1, 2;
\* products absent or mapping both keys
PartialMaps(keys, ids) == UNION {[d -> ids] : d \in SUBSET keys}
FkRegistries ==
    LET users == {<<>>} \cup {("users" :> m) : m \in PartialMaps(FkKeys, {1, 2})}
        products == {<<>>, ("products" :> (StrKey("k1") :> 2 @@ StrKey("k2") :> 1))}
    IN  {u @@ q : u \in users, q \in products}

InitFk ==
    /\ pc = "fk_call"
    /\ result = "none"
    /\ table_configs \in
          {<<[table_name |-> "orders", columns |-> FkColumns, data_list |-> d,
              foreign_keys |-> f]>> :
           d \in SeqsUpTo(FkRows, MaxRows), f \in FkCases}
    /\ ordered_configs = NotResolved
    /\ IdleInput /\ IdleDb /\ is_success = TRUE /\ IdleSeq /\ IdleMt /\ IdleRel /\ IdleForm
    /\ id_mapping \in FkRegistries
    /\ processed_data = [raised |-> "none", rows |-> <<>>, ref_table |-> "", logical_key |-> <<>>]
    /\ IdleCk /\ IdleMulti /\ IdleRs

\* a rewriter that looks the parent table up with setdefault instead of get:
\* a table without entries is entered into the registry (mutant of ProcessFk)
ProcessFkSetDefault ==
    /\ pc = "fk_call"
    /\ processed_data' = ProcessForeignKeys(table_configs[1].data_list, table_configs[1].columns,
                                            id_mapping, table_configs[1])
    /\ id_mapping' = [t \in DOMAIN id_mapping \cup
                              {FkReferences(table_configs[1])[c][1] :
                                   c \in DOMAIN FkReferences(table_configs[1])} |->
                          IF t \in DOMAIN id_mapping THEN id_mapping[t] ELSE <<>>]
    /\ pc' = "fk_returned"
    /\ UNCHANGED fkFrame

\* 68: processed_data = self._process_foreign_keys(data_list, columns, id_mapping, table_config)
ProcessFk ==
    /\ pc = "fk_call"
    /\ processed_data' = ProcessForeignKeys(table_configs[1].data_list, table_configs[1].columns,
                                            id_mapping, table_configs[1])
    /\ pc' = "fk_returned"
    /\ UNCHANGED <<id_mapping, fkFrame>>

NextFk == ProcessFk

SpecFk == InitFk /\ [][NextFk]_vars

\* --------------------------------------------------------------- claim C34
\* C34: the rewriter only reads: a call of _process_foreign_keys, whether it
\* returns the rewritten rows or raises, leaves the registry (its table keys
\* and every entry) and the caller's rows and table config as they were.
C34_RewriterOnlyReads ==
    [][pc = "fk_call" => /\ id_mapping' = id_mapping
                         /\ table_configs' = table_configs]_vars

\* both outcomes at once are not possible, so the harder one: the call raised
\* for the key of a table the registry has no entry for, after a lookup in
\* that table, and the registry still has no entry for it, while the input
\* rows still carry their logical keys
C34_Witness ==
    /\ pc = "fk_returned"
    /\ processed_data.raised = "ValueError"
    /\ processed_data.ref_table = "users"
    /\ "users" \notin DOMAIN id_mapping
    /\ "products" \in DOMAIN id_mapping
    /\ Len(table_configs[1].data_list) = 2
    /\ table_configs[1].data_list[1][2] = processed_data.logical_key

\* C10: when _process_foreign_keys returns, every foreign-key column of every
\* row carries the physical id the registry maps the row's logical key to for
\* the referenced parent, every other column is unchanged, and the rows are as
\* many and in the same order as the input rows.
C10_ForeignKeysRewritten ==
    (pc = "fk_returned" /\ processed_data.raised = "none") =>
        LET config == table_configs[1]
            input == config.data_list
            out == processed_data.rows
        IN  /\ Len(out) = Len(input)
            /\ \A r \in DOMAIN input : \A c \in DOMAIN config.columns :
                  IF config.columns[c] \in DOMAIN config.foreign_keys
                  THEN LET parent == config.foreign_keys[config.columns[c]][1]
                       IN  /\ MappingHas(id_mapping, parent, input[r][c])
                           /\ out[r][c] = id_mapping[parent][input[r][c]]
                  ELSE out[r][c] = input[r][c]

\* two rows naming different users of which k2 has id 1 and k1 has id 2
C10_Witness ==
    /\ pc = "fk_returned" /\ processed_data.raised = "none"
    /\ DOMAIN table_configs[1].foreign_keys = {"user_code"}
    /\ Len(table_configs[1].data_list) = 2
    /\ table_configs[1].data_list[1][2] = StrKey("k2")
    /\ table_configs[1].data_list[2][2] = StrKey("k1")
    /\ processed_data.rows[1][2] = 1 /\ processed_data.rows[2][2] = 2
    /\ processed_data.rows[1][1] = StrKey("k1")

\* =========== one table of a multi-table run (MutiTableBatchDeal.py 57-133)
\* A row in the database: its table, the id AUTO_INCREMENT gave it, its values.
DbRow(t, id, values) == [table |-> t, id |-> id, values |-> values]
\* the rows a session sees: the committed ones and those of its own transaction
VisibleRows(db, cs, c) == BagToSet(db) \cup Range(cs[c].pending)
\* 76: batch_size = table_config.get('batch_size', 1000)
DefaultTableBatchSize == 1000
InsBatchSize(config) ==
    IF config.batch_size = <<>> THEN DefaultTableBatchSize ELSE config.batch_size[1]
\* the rows of a batch as the database stores them, ids counted from first
Stored(t, batch, first) == [r \in DOMAIN batch |-> DbRow(t, first + r - 1, batch[r])]
\* index of a column in 'columns' (0 when the table has no such column)
ColumnIndex(columns, name) ==
    IF \E c \in DOMAIN columns : columns[c] = name
    THEN CHOOSE c \in DOMAIN columns : columns[c] = name
    ELSE 0
\* 117-119: key_indices, the first cell of every original row
KeyIndices(original_data) == [r \in DOMAIN original_data |-> original_data[r][1]]
\* 123-130: SELECT id_field, mapping_key FROM table WHERE mapping_key IN (keys)
SelectIdAndKey(visible, t, columns, mapping_key, keys) ==
    LET c == ColumnIndex(columns, mapping_key)
    IN  IF c = 0 THEN {}
        ELSE {<<row.id, row.values[c]>> :
                 row \in {x \in visible : x.table = t /\ x.values[c] \in keys}}
\* 113-114, 132-133: the registries the loop over the result rows can leave: the
\* last record of a key wins and the result rows come in no promised order
UpdatedIdMappings(idm, t, results) ==
    LET old == IF t \in DOMAIN idm THEN idm[t] ELSE <<>>
        found == {rec[2] : rec \in results}
        IdsOf(k) == {rec[1] : rec \in {x \in results : x[2] = k}}
    IN  {(t :> [k \in found \cup DOMAIN old |-> IF k \in found THEN f[k] ELSE old[k]]) @@ idm :
            f \in {g \in [found -> {rec[1] : rec \in results}] : \A k \in found : g[k] \in IdsOf(k)}}

\* where control goes when _insert_single_table_with_mapping returns or raises
InsReturnTo == IF caller = "checkpoint" THEN "ck_save" ELSE "multi_next"
InsRaiseTo == IF caller = "checkpoint" THEN "ck_except" ELSE "multi_except"
InsConfig == table_configs[table_i + 1]

\* a table insert that goes on with the rows as they are when a key has no id (mutant)
InsProcessForeignKeysUnchecked ==
    /\ pc = "ins_fk"
    /\ LET config == InsConfig
           processed == ProcessForeignKeys(config.data_list, config.columns, id_mapping, config)
       IN  processed_data' = IF processed.raised # "none"
                             THEN [processed EXCEPT !.raised = "none", !.rows = config.data_list]
                             ELSE processed
    /\ pc' = "ins_exec"
    /\ loop_k' = 1
    /\ UNCHANGED <<result, table_configs, dbVars, id_mapping, ckVars, ckFrame>>

\* 61-68: rewrite the foreign keys of the table's rows
InsProcessForeignKeys ==
    /\ pc = "ins_fk"
    /\ LET config == InsConfig
           processed == ProcessForeignKeys(config.data_list, config.columns, id_mapping, config)
       IN  /\ processed_data' = processed
           /\ pc' = IF processed.raised # "none" THEN InsRaiseTo ELSE "ins_exec"
    /\ loop_k' = 1
    /\ UNCHANGED <<result, table_configs, dbVars, id_mapping, ckVars, ckFrame>>

\* an executemany whose rejection is swallowed: the rows stored so far stay and
\* the loop goes on (mutant)
InsExecuteManySwallow ==
    /\ pc = "ins_exec"
    /\ LET config == InsConfig
           t == config.table_name
           table_batches_ == SliceBatches(processed_data.rows, InsBatchSize(config))
       IN  /\ loop_k <= Len(table_batches_)
           /\ LET batch_data == table_batches_[loop_k]
              IN  \E j \in 0..Len(batch_data) :
                     /\ conns' = DbExecuteMany(conns, connection,
                                   Stored(t, SubSeq(batch_data, 1, j), next_id[t]))
                     /\ next_id' = [next_id EXCEPT ![t] = @ + Len(batch_data)]
                     /\ exec_log' = Append(exec_log, [table |-> t, batch |-> batch_data,
                                                      raised |-> j < Len(batch_data)])
                     /\ loop_k' = loop_k + 1
                     /\ pc' = "ins_exec"
    /\ UNCHANGED <<result, table_configs, connection, committed, fkVars, ckFrameNoLog,
                   checkpoint_file, checkpoint, start_index, table_i, runs, run_log, caller,
                   io_failures>>

\* 76-79: executemany of the next batch; the database may reject it after some
\* rows.  The server reserves the ids of a multi-row INSERT when the statement
\* starts, so the counter moves by the whole batch either way.
InsExecuteMany ==
    /\ pc = "ins_exec"
    /\ LET config == InsConfig
           t == config.table_name
           table_batches_ == SliceBatches(processed_data.rows, InsBatchSize(config))
       IN  /\ loop_k <= Len(table_batches_)
           /\ LET batch_data == table_batches_[loop_k]
              IN  \/ /\ conns' = DbExecuteMany(conns, connection,
                                              Stored(t, batch_data, next_id[t]))
                     /\ next_id' = [next_id EXCEPT ![t] = @ + Len(batch_data)]
                     /\ exec_log' = Append(exec_log, [table |-> t, batch |-> batch_data,
                                                      raised |-> FALSE])
                     /\ loop_k' = loop_k + 1
                     /\ pc' = "ins_exec"
                  \/ \E j \in 0..(Len(batch_data) - 1) :
                     /\ conns' = DbExecuteMany(conns, connection,
                                   Stored(t, SubSeq(batch_data, 1, j), next_id[t]))
                     /\ next_id' = [next_id EXCEPT ![t] = @ + Len(batch_data)]
                     /\ exec_log' = Append(exec_log, [table |-> t, batch |-> batch_data,
                                                      raised |-> TRUE])
                     /\ pc' = InsRaiseTo
                     /\ UNCHANGED loop_k
    /\ UNCHANGED <<result, table_configs, connection, committed, fkVars, ckFrameNoLog,
                   checkpoint_file, checkpoint, start_index, table_i, runs, run_log, caller,
                   io_failures>>

\* 77, 82: the batches are done; a table with a mapping key updates the registry
InsBatchesDone ==
    /\ pc = "ins_exec"
    /\ loop_k > Len(SliceBatches(processed_data.rows, InsBatchSize(InsConfig)))
    /\ pc' = IF InsConfig.mapping_key # <<>> THEN "ins_map" ELSE InsReturnTo
    /\ UNCHANGED <<result, table_configs, dbVars, loop_k, fkVars, ckVars, ckFrame>>

\* 83, 108-133 _update_id_mapping: the join of 122 raises TypeError on a key
\* that is not a str; otherwise the ids the SELECT returns enter the registry
InsUpdateIdMapping ==
    /\ pc = "ins_map"
    /\ LET config == InsConfig
           keys == KeyIndices(config.data_list)
       IN  IF \E r \in DOMAIN keys : keys[r][1] # "str"
           THEN /\ id_mapping' = IF config.table_name \in DOMAIN id_mapping THEN id_mapping
                                 ELSE (config.table_name :> <<>>) @@ id_mapping
                /\ pc' = InsRaiseTo
           ELSE /\ id_mapping' \in UpdatedIdMappings(id_mapping, config.table_name,
                                     SelectIdAndKey(VisibleRows(committed, conns, connection),
                                                    config.table_name, config.columns,
                                                    config.mapping_key[1], Range(keys)))
                /\ pc' = InsReturnTo
    /\ UNCHANGED <<result, table_configs, dbVars, loop_k, processed_data, ckVars, ckFrame>>

\* ===== batch_insert_with_checkpoint (MutiTableBatchDeal.py 198-264)
MaxRuns == 2
MaxIoFailures == 1

\* json.dump then json.load of a dict: every key comes back as a str
JsonKey(k) == <<"str", k[2]>>
JsonObject(m) ==
    [k2 \in {JsonKey(k) : k \in DOMAIN m} |-> m[CHOOSE k \in DOMAIN m : JsonKey(k) = k2]]
JsonRoundTrip(ck) ==
    [completed_tables |-> ck.completed_tables,
     id_mapping |-> [t \in DOMAIN ck.id_mapping |-> JsonObject(ck.id_mapping[t])]]
\* 248: the zero-value checkpoint
ZeroCheckpoint == [completed_tables |-> 0, id_mapping |-> <<>>]
AbsentFile == [state |-> "absent", completed_tables |-> 0, id_mapping |-> <<>>]
CorruptFile == [state |-> "corrupt", completed_tables |-> 0, id_mapping |-> <<>>]
SavedFile(ck) ==
    [state |-> "saved", completed_tables |-> JsonRoundTrip(ck).completed_tables,
     id_mapping |-> JsonRoundTrip(ck).id_mapping]
\* 240-248 _load_checkpoint when reading and parsing go well
LoadCheckpoint(file) ==
    IF file.state = "saved"
    THEN [completed_tables |-> file.completed_tables, id_mapping |-> file.id_mapping]
    ELSE ZeroCheckpoint
CkConn == <<"main", runs>>

\* a load that lets the error of an unreadable file escape: the call ends
\* without a run (mutant)
CkLoadCheckpointRaises ==
    /\ pc = "ck_start"
    /\ IF checkpoint_file.state = "corrupt"
       THEN /\ result' = Returned(FALSE)
            /\ pc' = "ck_done"
            /\ UNCHANGED checkpoint
       ELSE /\ checkpoint' = LoadCheckpoint(checkpoint_file)
            /\ pc' = "ck_connect"
            /\ UNCHANGED result
    /\ UNCHANGED <<table_configs, dbVars, loop_k, fkVars, ckFrame, io_failures,
                   checkpoint_file, start_index, table_i, next_id, runs, run_log, caller>>

\* 205, 240-248: load the checkpoint; a file that cannot be read gives the zero value
CkLoadCheckpoint ==
    /\ pc = "ck_start"
    /\ \/ /\ checkpoint' = LoadCheckpoint(checkpoint_file)
          /\ UNCHANGED io_failures
       \/ /\ checkpoint_file.state # "absent"
          /\ io_failures < MaxIoFailures
          /\ io_failures' = io_failures + 1
          /\ checkpoint' = ZeroCheckpoint
    /\ pc' = "ck_connect"
    /\ UNCHANGED <<result, table_configs, dbVars, loop_k, fkVars, ckFrame,
                   checkpoint_file, start_index, table_i, next_id, runs, run_log, caller>>

\* a connect whose failure path also removes the checkpoint file (mutant)
CkConnectFailureClears ==
    /\ pc = "ck_connect"
    /\ \/ /\ connection' = CkConn
          /\ conns' = DbConnect(conns, CkConn)
          /\ pc' = "ck_begin"
          /\ UNCHANGED <<result, checkpoint_file>>
       \/ /\ result' = Returned(FALSE)
          /\ pc' = "ck_done"
          /\ checkpoint_file' = AbsentFile
          /\ UNCHANGED <<connection, conns>>
    /\ UNCHANGED <<table_configs, committed, loop_k, fkVars, ckFrame, checkpoint,
                   start_index, table_i, next_id, runs, run_log, caller, io_failures>>

\* 207-210: connect() opens a new session, or fails and the call returns False
CkConnect ==
    /\ pc = "ck_connect"
    /\ \/ /\ connection' = CkConn
          /\ conns' = DbConnect(conns, CkConn)
          /\ pc' = "ck_begin"
          /\ UNCHANGED result
       \/ /\ result' = Returned(FALSE)
          /\ pc' = "ck_done"
          /\ UNCHANGED <<connection, conns>>
    /\ UNCHANGED <<table_configs, committed, loop_k, fkVars, ckVars, ckFrame>>

\* a begin that takes the start index from the checkpoint but starts with an
\* empty registry (mutant)
CkBeginEmptyRegistry ==
    /\ pc = "ck_begin"
    /\ start_index' = checkpoint.completed_tables
    /\ table_i' = checkpoint.completed_tables
    /\ id_mapping' = <<>>
    /\ pc' = "ck_loop"
    /\ UNCHANGED <<result, table_configs, dbVars, loop_k, processed_data, ckFrame,
                   checkpoint_file, checkpoint, next_id, runs, run_log, caller, io_failures>>

\* a begin that restores the registry but starts at the first table (mutant)
CkBeginFromZero ==
    /\ pc = "ck_begin"
    /\ start_index' = checkpoint.completed_tables
    /\ table_i' = 0
    /\ id_mapping' = checkpoint.id_mapping
    /\ pc' = "ck_loop"
    /\ UNCHANGED <<result, table_configs, dbVars, loop_k, processed_data, ckFrame,
                   checkpoint_file, checkpoint, next_id, runs, run_log, caller, io_failures>>

\* 213-217: begin(), start_index and id_mapping come from the checkpoint
CkBegin ==
    /\ pc = "ck_begin"
    /\ start_index' = checkpoint.completed_tables
    /\ table_i' = checkpoint.completed_tables
    /\ id_mapping' = checkpoint.id_mapping
    /\ pc' = "ck_loop"
    /\ UNCHANGED <<result, table_configs, dbVars, loop_k, processed_data, ckFrame,
                   checkpoint_file, checkpoint, next_id, runs, run_log, caller, io_failures>>

\* 219-221: the next table, if there is one
CkNextTable ==
    /\ pc = "ck_loop"
    /\ pc' = IF table_i < Len(table_configs) THEN "ins_fk" ELSE "ck_commit"
    /\ UNCHANGED <<result, table_configs, dbVars, loop_k, fkVars, ckVars, ckFrame>>

\* a save whose failure is raised into the run (mutant)
CkSaveCheckpointFatal ==
    /\ pc = "ck_save"
    /\ checkpoint' = [completed_tables |-> table_i + 1, id_mapping |-> id_mapping]
    /\ \/ /\ checkpoint_file' = SavedFile(checkpoint')
          /\ table_i' = table_i + 1
          /\ pc' = "ck_loop"
          /\ UNCHANGED io_failures
       \/ /\ io_failures < MaxIoFailures
          /\ io_failures' = io_failures + 1
          /\ \/ UNCHANGED checkpoint_file
             \/ checkpoint_file' = CorruptFile
          /\ pc' = "ck_except"
          /\ UNCHANGED table_i
    /\ UNCHANGED <<result, table_configs, dbVars, loop_k, fkVars, ckFrame,
                   start_index, next_id, runs, run_log, caller>>

\* a save that stores the index of the table instead of the index plus one
\* (mutant)
CkSaveCheckpointIndex ==
    /\ pc = "ck_save"
    /\ checkpoint' = [completed_tables |-> table_i, id_mapping |-> id_mapping]
    /\ \/ /\ checkpoint_file' = SavedFile(checkpoint')
          /\ UNCHANGED io_failures
       \/ /\ io_failures < MaxIoFailures
          /\ io_failures' = io_failures + 1
          /\ \/ UNCHANGED checkpoint_file
             \/ checkpoint_file' = CorruptFile
    /\ table_i' = table_i + 1
    /\ pc' = "ck_loop"
    /\ UNCHANGED <<result, table_configs, dbVars, loop_k, fkVars, ckFrame,
                   start_index, next_id, runs, run_log, caller>>

\* 224-226, 250-256: the table is done: write the checkpoint.  open() may fail
\* (the file stays as it was) and json.dump may fail (the file is left broken);
\* both are swallowed.
CkSaveCheckpoint ==
    /\ pc = "ck_save"
    /\ checkpoint' = [completed_tables |-> table_i + 1, id_mapping |-> id_mapping]
    /\ \/ /\ checkpoint_file' = SavedFile(checkpoint')
          /\ UNCHANGED io_failures
       \/ /\ io_failures < MaxIoFailures
          /\ io_failures' = io_failures + 1
          /\ \/ UNCHANGED checkpoint_file
             \/ checkpoint_file' = CorruptFile
    /\ table_i' = table_i + 1
    /\ pc' = "ck_loop"
    /\ UNCHANGED <<result, table_configs, dbVars, loop_k, fkVars, ckFrame,
                   start_index, next_id, runs, run_log, caller>>

\* 229: commit the one transaction of the run; the database may refuse
CkCommit ==
    /\ pc = "ck_commit"
    /\ \/ /\ committed' = DbCommitted(committed, conns, connection)
          /\ conns' = DbEndTransaction(conns, connection)
          /\ pc' = "ck_remove"
       \/ /\ pc' = "ck_except"
          /\ UNCHANGED <<conns, committed>>
    /\ UNCHANGED <<result, table_configs, connection, loop_k, fkVars, ckVars, ckFrame>>

\* 230-231, 258-264: remove the checkpoint file (a failure is swallowed), return True
CkRemoveCheckpoint ==
    /\ pc = "ck_remove"
    /\ \/ /\ checkpoint_file' = AbsentFile
          /\ UNCHANGED io_failures
       \/ /\ checkpoint_file.state # "absent"
          /\ io_failures < MaxIoFailures
          /\ io_failures' = io_failures + 1
          /\ UNCHANGED checkpoint_file
    /\ result' = Returned(TRUE)
    /\ pc' = "ck_done"
    /\ UNCHANGED <<table_configs, dbVars, loop_k, fkVars, ckFrame,
                   checkpoint, start_index, table_i, next_id, runs, run_log, caller>>

\* an error path that also removes the checkpoint file (mutant)
CkExceptRemoves ==
    /\ pc = "ck_except"
    /\ conns' = DbEndTransaction(conns, connection)
    /\ result' = Returned(FALSE)
    /\ checkpoint_file' = AbsentFile
    /\ pc' = "ck_done"
    /\ UNCHANGED <<table_configs, connection, committed, loop_k, fkVars, ckFrame,
                   checkpoint, start_index, table_i, next_id, runs, run_log, caller,
                   io_failures>>

\* 233-236: anything raised inside the try: rollback, return False
CkExcept ==
    /\ pc = "ck_except"
    /\ conns' = DbEndTransaction(conns, connection)
    /\ result' = Returned(FALSE)
    /\ pc' = "ck_done"
    /\ UNCHANGED <<table_configs, connection, committed, loop_k, fkVars, ckVars, ckFrame>>

\* the caller calls batch_insert_with_checkpoint again: same configs, same
\* file; the locals of the call that returned are gone
CkCallAgain ==
    /\ pc = "ck_done"
    /\ runs < MaxRuns
    /\ runs' = runs + 1
    /\ run_log' = Append(run_log, result)
    /\ result' = "none"
    /\ checkpoint' = ZeroCheckpoint
    /\ start_index' = 0 /\ table_i' = 0 /\ loop_k' = 1
    /\ id_mapping' = <<>>
    /\ processed_data' = [raised |-> "none", rows |-> <<>>, ref_table |-> "", logical_key |-> <<>>]
    /\ exec_log' = <<>>
    /\ pc' = "ck_start"
    /\ UNCHANGED <<table_configs, dbVars, ckFrameNoLog, checkpoint_file, next_id, caller,
                   io_failures>>

\* the example configuration (160-186): users, orders referring to users,
\* order_items referring to orders; row i of a table has the logical key
\* <<table, i>>, and rows 2j-1 and 2j of a child refer to row j of its parent
KeyOfRow(t, i) == StrKey(<<t, i>>)
ParentRow(i) == (i + 1) \div 2
CkConfigs ==
    {<<[table_name |-> "users", columns |-> <<"user_code", "name">>,
        data_list |-> [i \in 1..n[1] |-> <<KeyOfRow("users", i), "name">>],
        mapping_key |-> <<"user_code">>, foreign_keys |-> <<>>, batch_size |-> <<b>>],
       [table_name |-> "orders", columns |-> <<"order_code", "user_code", "amount">>,
        data_list |-> [i \in 1..n[2] |->
                         <<KeyOfRow("orders", i), KeyOfRow("users", ParentRow(i)), "amount">>],
        mapping_key |-> <<"order_code">>,
        foreign_keys |-> ("user_code" :> <<"users", "user_code">>), batch_size |-> <<>>],
       [table_name |-> "order_items", columns |-> <<"item_code", "order_code", "product_name">>,
        data_list |-> [i \in 1..n[3] |->
                         <<KeyOfRow("order_items", i), KeyOfRow("orders", ParentRow(i)), "name">>],
        mapping_key |-> <<>>,
        foreign_keys |-> ("order_code" :> <<"orders", "order_code">>), batch_size |-> <<>>]>> :
     n \in [1..3 -> 0..MaxRows], b \in 1..MaxBatchSize}

InitCheckpoint ==
    /\ pc = "ck_start"
    /\ result = "none"
    /\ table_configs \in CkConfigs
    /\ ordered_configs = NotResolved
    /\ IdleInput /\ IdleDb /\ is_success = TRUE /\ IdleSeq /\ IdleMt /\ IdleRel /\ IdleForm
    /\ IdleFk
    /\ checkpoint_file = AbsentFile
    /\ checkpoint = ZeroCheckpoint
    /\ start_index = 0 /\ table_i = 0
    /\ next_id = [t \in {"users", "orders", "order_items"} |-> 1]
    /\ runs = 1 /\ run_log = <<>>
    /\ caller = "checkpoint"
    /\ io_failures = 0
    /\ IdleMulti /\ IdleRs

NextCheckpoint ==
    \/ CkLoadCheckpoint
    \/ CkConnect
    \/ CkBegin
    \/ CkNextTable
    \/ InsProcessForeignKeys
    \/ InsExecuteMany
    \/ InsBatchesDone
    \/ InsUpdateIdMapping
    \/ CkSaveCheckpoint
    \/ CkCommit
    \/ CkRemoveCheckpoint
    \/ CkExcept
    \/ CkCallAgain

SpecCheckpoint == InitCheckpoint /\ [][NextCheckpoint]_vars

\* -------------------------------------------- notions of a checkpointed run
\* every row of table number i (1-based) of the configuration is committed
TableCommitted(i) ==
    \A r \in DOMAIN table_configs[i].data_list :
        \E row \in BagToSet(committed) :
            /\ row.table = table_configs[i].table_name
            /\ row.values[1] = table_configs[i].data_list[r][1]
\* the call that just returned resumed, at a table the checkpoint named, after
\* a call that failed
ResumedAfterFailure ==
    /\ start_index > 0 /\ start_index < Len(table_configs)
    /\ run_log # <<>> /\ run_log[Len(run_log)] = "False"

\* C3 (as claimed): when a call has returned and the checkpoint file records
\* completed_tables = k, the rows of tables 0..k-1 are committed; and when a
\* resumed call that follows a failed call returns True, the rows of every table
\* are committed.  (The claim says "whenever"; already the states between calls
\* refute it.)
C3_CheckpointedResume ==
    /\ (pc = "ck_done" /\ checkpoint_file.state = "saved") =>
          \A i \in 1..checkpoint_file.completed_tables : TableCommitted(i)
    /\ (pc = "ck_done" /\ result = "True" /\ ResumedAfterFailure) =>
          \A i \in DOMAIN table_configs : TableCommitted(i)

\* ======== batch_insert_multiple_tables (MutiTableBatchDeal.py 11-55)
\* 21-22: connect() opens a new session, or fails and the call returns False
MultiConnect ==
    /\ pc = "multi_start"
    /\ \/ /\ connection' = CkConn
          /\ conns' = DbConnect(conns, CkConn)
          /\ pc' = "multi_begin"
          /\ UNCHANGED result
       \/ /\ result' = Returned(FALSE)
          /\ pc' = "multi_done"
          /\ UNCHANGED <<connection, conns>>
    /\ UNCHANGED <<table_configs, committed, loop_k, fkVars, ckVars, ckFrame>>

\* 25-37: read @@autocommit (the statement may fail, original_autocommit stays
\* None), begin(), set the lock timeout, start with an empty registry
MultiBegin ==
    /\ pc = "multi_begin"
    /\ \/ /\ original_autocommit' = <<conns[connection].settings.autocommit>>
          /\ id_mapping' = <<>>
          /\ table_i' = 0
          /\ pc' = "multi_loop"
       \/ /\ pc' = "multi_except"
          /\ UNCHANGED <<original_autocommit, id_mapping, table_i>>
    /\ UNCHANGED <<result, table_configs, dbVars, loop_k, processed_data,
                   ordered_configs, inputVars, is_success, exec_log, mtVars, relVars, formed,
                   checkpoint_file, checkpoint, start_index, next_id, runs, run_log, caller,
                   io_failures, rsVars>>

\* 38-39: the next config of the list, if there is one
MultiNextTable ==
    /\ pc = "multi_loop"
    /\ pc' = IF table_i < Len(table_configs) THEN "ins_fk" ELSE "multi_commit"
    /\ UNCHANGED <<result, table_configs, dbVars, loop_k, fkVars, ckVars, ckFrame>>

\* a loop that commits after every table (mutant)
MultiTableDoneCommits ==
    /\ pc = "multi_next"
    /\ committed' = DbCommitted(committed, conns, connection)
    /\ conns' = DbEndTransaction(conns, connection)
    /\ table_i' = table_i + 1
    /\ pc' = "multi_loop"
    /\ UNCHANGED <<result, table_configs, connection, loop_k, fkVars, ckFrame,
                   checkpoint_file, checkpoint, start_index, next_id, runs, run_log, caller,
                   io_failures>>

\* 38: _insert_single_table_with_mapping returned, the loop moves on
MultiTableDone ==
    /\ pc = "multi_next"
    /\ table_i' = table_i + 1
    /\ pc' = "multi_loop"
    /\ UNCHANGED <<result, table_configs, dbVars, loop_k, fkVars, ckFrame,
                   checkpoint_file, checkpoint, start_index, next_id, runs, run_log, caller,
                   io_failures>>

\* 42-44: commit the one transaction and return True; the database may refuse
MultiCommit ==
    /\ pc = "multi_commit"
    /\ \/ /\ committed' = DbCommitted(committed, conns, connection)
          /\ conns' = DbEndTransaction(conns, connection)
          /\ result' = Returned(TRUE)
          /\ pc' = "multi_finally"
       \/ /\ pc' = "multi_except"
          /\ UNCHANGED <<conns, committed, result>>
    /\ UNCHANGED <<table_configs, connection, loop_k, fkVars, ckVars, ckFrame>>

\* a handler that rolls back and lets the exception go on to the caller (mutant)
MultiExceptReraises ==
    /\ pc = "multi_except"
    /\ conns' = DbEndTransaction(conns, connection)
    /\ result' = "raised"
    /\ pc' = "multi_finally"
    /\ UNCHANGED <<table_configs, connection, committed, loop_k, fkVars, ckVars, ckFrame>>

\* 46-50: anything raised inside the try: rollback, return False
MultiExcept ==
    /\ pc = "multi_except"
    /\ conns' = DbEndTransaction(conns, connection)
    /\ result' = Returned(FALSE)
    /\ pc' = "multi_finally"
    /\ UNCHANGED <<table_configs, connection, committed, loop_k, fkVars, ckVars, ckFrame>>

\* 51-55: finally: SET autocommit back to the value read at the start
MultiFinally ==
    /\ pc = "multi_finally"
    /\ conns' = IF original_autocommit # <<>>
                THEN [conns EXCEPT ![connection].settings.autocommit = original_autocommit[1]]
                ELSE conns
    /\ pc' = "multi_done"
    /\ UNCHANGED <<result, table_configs, connection, committed, loop_k, fkVars, ckVars,
                   ckFrame>>

InitMulti ==
    /\ pc = "multi_start"
    /\ result = "none"
    /\ table_configs \in CkConfigs
    /\ ordered_configs = NotResolved
    /\ IdleInput /\ IdleDb /\ is_success = TRUE /\ IdleSeq /\ IdleMt /\ IdleRel /\ IdleForm
    /\ IdleFk
    /\ checkpoint_file = AbsentFile
    /\ checkpoint = ZeroCheckpoint
    /\ start_index = 0 /\ table_i = 0
    /\ next_id = [t \in {"users", "orders", "order_items"} |-> 1]
    /\ runs = 1 /\ run_log = <<>>
    /\ caller = "multiple"
    /\ io_failures = 0
    /\ IdleMulti /\ IdleRs

NextMulti ==
    \/ MultiConnect
    \/ MultiBegin
    \/ MultiNextTable
    \/ InsProcessForeignKeys
    \/ InsExecuteMany
    \/ InsBatchesDone
    \/ InsUpdateIdMapping
    \/ MultiTableDone
    \/ MultiCommit
    \/ MultiExcept
    \/ MultiFinally

SpecMulti == InitMulti /\ [][NextMulti]_vars

\* ---- batch_insert_multiple_tables with the configs listed in any order
\* the configs of the scenario in each of the orders a caller can list them
ListedConfigs ==
    {[i \in 1..3 |-> cfgs[q[i]]] : cfgs \in CkConfigs, q \in Permutations(1..3)}

InitMultiListed ==
    /\ pc = "multi_start"
    /\ result = "none"
    /\ table_configs \in ListedConfigs
    /\ ordered_configs = NotResolved
    /\ IdleInput /\ IdleDb /\ is_success = TRUE /\ IdleSeq /\ IdleMt /\ IdleRel /\ IdleForm
    /\ IdleFk
    /\ checkpoint_file = AbsentFile
    /\ checkpoint = ZeroCheckpoint
    /\ start_index = 0 /\ table_i = 0
    /\ next_id = [t \in {"users", "orders", "order_items"} |-> 1]
    /\ runs = 1 /\ run_log = <<>>
    /\ caller = "multiple"
    /\ io_failures = 0
    /\ IdleMulti /\ IdleRs

SpecMultiListed == InitMultiListed /\ [][NextMulti]_vars

\* --------------------------------------------------------------- claim C32
\* the tables the foreign keys of a config refer to
ReferencedTables(config) ==
    {FkReferences(config)[c][1] : c \in DOMAIN FkReferences(config)}
ListedPosition(t) == CHOOSE i \in DOMAIN table_configs : table_configs[i].table_name = t
\* the rewrite failed for a key of a table that the caller listed later
FailedOnLaterParent ==
    /\ processed_data.raised # "none"
    /\ ListedPosition(processed_data.ref_table) > table_i + 1
\* C32: batch_insert_multiple_tables inserts the tables in dependency order
\* whatever the order of the list: when the rows of a table are rewritten,
\* every table they refer to has been inserted in this run, and no run fails
\* because a child was listed before its parent.
C32_DependencyOrder ==
    /\ pc = "ins_fk" => \A t \in ReferencedTables(InsConfig) : ListedPosition(t) <= table_i
    /\ pc = "multi_done" => ~FailedOnLaterParent

\* the run the claim is about: orders listed before users, one row each; the
\* call is back with False, nothing committed, after the rewrite of the first
\* listed table found no id for the user key
C32_ChildListedFirst ==
    /\ pc = "multi_done" /\ result = "False"
    /\ table_configs[1].table_name = "orders" /\ Len(table_configs[1].data_list) = 1
    /\ table_configs[2].table_name = "users" /\ Len(table_configs[2].data_list) = 1
    /\ FailedOnLaterParent
    /\ committed = EmptyBag

\* ------------------------------------------ notions of a multi-table run
CfgOfTable(t) == CHOOSE cfg \in Range(table_configs) : cfg.table_name = t
\* the executemany calls made for table t in this run
ExecutedFor(t) == {k \in DOMAIN exec_log : exec_log[k].table = t}
PendingOf(t) ==
    IF connection \in DOMAIN conns
    THEN {row \in Range(conns[connection].pending) : row.table = t}
    ELSE {}
\* a row handed to executemany for table t carries, in every foreign-key
\* column, the id the registry has for the logical key of the original row
RowResolved(t, row) ==
    LET cfg == CfgOfTable(t)
    IN  \E i \in DOMAIN cfg.data_list :
          /\ cfg.data_list[i][1] = row[1]
          /\ \A c \in DOMAIN cfg.columns :
                cfg.columns[c] \in DOMAIN cfg.foreign_keys =>
                   /\ MappingHas(id_mapping, cfg.foreign_keys[cfg.columns[c]][1], cfg.data_list[i][c])
                   /\ row[c] = id_mapping[cfg.foreign_keys[cfg.columns[c]][1]][cfg.data_list[i][c]]
MissingMappingRaised == processed_data.raised = "ValueError"

\* C11 (as claimed): when a row refers to a logical key the registry lacks, the
\* run fails before any row has reached the database; otherwise every row
\* handed to executemany has its foreign keys resolved.
C11_FailsBeforeAnyRow ==
    /\ MissingMappingRaised => exec_log = <<>>
    /\ \A k \in DOMAIN exec_log : \A r \in DOMAIN exec_log[k].batch :
          RowResolved(exec_log[k].table, exec_log[k].batch[r])

\* C11 (amended): when a row of a table refers to a logical key the registry
\* lacks, ValueError ends the run before any row of that table is handed to
\* executemany; rows of earlier tables were executed in the transaction and are
\* rolled back, the call returns False and nothing is committed.  Every row
\* that is handed to executemany has its foreign keys resolved.
C11_FailsBeforeTableRows ==
    /\ MissingMappingRaised =>
          /\ pc \in {"multi_except", "multi_finally", "multi_done"}
          /\ ExecutedFor(InsConfig.table_name) = {}
          /\ PendingOf(InsConfig.table_name) = {}
          /\ committed = EmptyBag
          /\ pc = "multi_done" => result = "False" /\ conns[connection].pending = <<>>
    /\ \A k \in DOMAIN exec_log : \A r \in DOMAIN exec_log[k].batch :
          RowResolved(exec_log[k].table, exec_log[k].batch[r])

\* users was executed, then a row of orders named a user that has no id
C11_Witness ==
    /\ pc = "multi_done" /\ result = "False"
    /\ MissingMappingRaised
    /\ InsConfig.table_name = "orders"
    /\ ExecutedFor("users") # {}
    /\ committed = EmptyBag

\* == batch_insert_with_relationships (MySQLScript.py 379-429, 466-501)
\* A config is [table_name, columns, data, foreign_key_mapping, id_mapping_key];
\* foreign_key_mapping is a list of [column_index, parent_table,
\* parent_mapping_key] (empty when the key is absent), id_mapping_key is <<>>
\* when absent.  The first cell of a row is the id the caller supplies.
\* 433-445: the dependencies the resolver reads off foreign_key_mapping
RsDependencyView(cfgs) ==
    [i \in DOMAIN cfgs |->
        [table_name |-> cfgs[i].table_name,
         dependencies |-> [j \in DOMAIN cfgs[i].foreign_key_mapping |->
                              cfgs[i].foreign_key_mapping[j].parent_table]]]
\* 497-501 _get_saved_id_mapping: the list saved under the key, <<>> for None
GetSavedIdMapping(saved, mapping_key) ==
    IF mapping_key \in DOMAIN saved THEN saved[mapping_key] ELSE <<>>
\* 488-495 _save_id_mapping: ids = [row[0] for row in data_list]
SaveIdMapping(saved, mapping_key, data) ==
    (mapping_key :> [r \in DOMAIN data |-> data[r][1]]) @@ saved
\* 466-486 _update_foreign_keys: every mapping whose parent has saved ids puts
\* random.choice(parent_ids) into its column; the outcomes of one row
RsMappingsOn(mappings, saved, c) ==
    {j \in DOMAIN mappings :
        /\ mappings[j].column_index + 1 = c
        /\ GetSavedIdMapping(saved, mappings[j].parent_mapping_key) # <<>>}
RsRowOutcomes(row, mappings, saved) ==
    {new_row \in [DOMAIN row -> Range(row) \cup UNION {Range(saved[k]) : k \in DOMAIN saved}] :
        \A c \in DOMAIN row :
            LET on == RsMappingsOn(mappings, saved, c)
            IN  IF on = {} THEN new_row[c] = row[c]
                ELSE LET last == CHOOSE j \in on : \A o \in on : o <= j
                     IN  new_row[c] \in Range(saved[mappings[last].parent_mapping_key])}
UpdateForeignKeys(data, mappings, saved) ==
    IF data = <<>> THEN {<<>>}
    ELSE {updated \in [DOMAIN data -> UNION {RsRowOutcomes(data[r], mappings, saved) :
                                              r \in DOMAIN data}] :
             \A r \in DOMAIN data : updated[r] \in RsRowOutcomes(data[r], mappings, saved)}
RsConfigAt(pos) == ConfigNamed(table_configs, ordered_configs.order[pos])

\* 394-396: if not self.connection: if not self.connect(): return False
RsConnect ==
    /\ pc = "rs_start"
    /\ \/ /\ connection # NoConn
          /\ pc' = "rs_resolve"
          /\ UNCHANGED <<result, dbVars>>
       \/ /\ connection = NoConn
          /\ connection' = MainConn
          /\ conns' = IF auto_optimize
                      THEN ApplyBulkOptimizations(DbConnect(conns, MainConn), MainConn)
                      ELSE DbConnect(conns, MainConn)
          /\ pc' = "rs_resolve"
          /\ UNCHANGED <<result, committed>>
       \/ /\ connection = NoConn
          /\ result' = Returned(FALSE)
          /\ pc' = "rs_done"
          /\ UNCHANGED dbVars
    /\ UNCHANGED <<is_success, seqVars, seqFrame>>

\* 400-401: order the configs (a parent without a config raises KeyError)
RsResolve ==
    /\ pc = "rs_resolve"
    /\ ordered_configs' = OrderTableConfigsByDependency(RsDependencyView(table_configs))
    /\ table_pos' = 1
    /\ pc' = IF ordered_configs'.raised # "none" THEN "rs_except" ELSE "rs_table"
    /\ UNCHANGED <<result, table_configs, inputVars, dbVars, is_success, seqVars, mtVars,
                   table_batches, batch_idx, formed, fkVars, ckVars, multiVars, rsVars>>

\* 403-416: the next table: rewrite its foreign keys, call batch_insert
RsNextTable ==
    /\ pc = "rs_table"
    /\ IF table_pos <= Len(ordered_configs.order)
       THEN /\ data_list' \in UpdateForeignKeys(RsConfigAt(table_pos).data,
                                 RsConfigAt(table_pos).foreign_key_mapping, id_mappings)
            /\ is_success' = TRUE
            /\ loop_k' = 1
            /\ pc' = "seq_start"
       ELSE /\ pc' = "rs_commit"
            /\ UNCHANGED <<data_list, is_success, loop_k>>
    /\ UNCHANGED <<result, resolverVars, batch_size, auto_optimize, dbVars, exec_log, mtVars,
                   relVars, formed, fkVars, ckVars, multiVars, rsVars>>

\* 416-420: batch_insert returned; what it returned is dropped; the ids of a
\* table with an id_mapping_key are saved; on to the next table
RsBatchInsertReturns ==
    /\ pc = "seq_return"
    /\ run_log' = Append(run_log, Returned(is_success))
    /\ id_mappings' = IF RsConfigAt(table_pos).id_mapping_key # <<>>
                      THEN SaveIdMapping(id_mappings, RsConfigAt(table_pos).id_mapping_key[1],
                                         data_list)
                      ELSE id_mappings
    /\ table_pos' = table_pos + 1
    /\ pc' = "rs_table"
    /\ UNCHANGED <<result, resolverVars, inputVars, dbVars, is_success, seqVars, mtVars,
                   table_batches, batch_idx, formed, fkVars, multiVars,
                   checkpoint_file, checkpoint, start_index, table_i, next_id, runs, caller,
                   io_failures>>

\* 422-423: the final commit and return True; the database may refuse
RsCommit ==
    /\ pc = "rs_commit"
    /\ \/ /\ committed' = DbCommitted(committed, conns, connection)
          /\ conns' = DbEndTransaction(conns, connection)
          /\ result' = Returned(TRUE)
          /\ pc' = "rs_done"
       \/ /\ pc' = "rs_except"
          /\ UNCHANGED <<conns, committed, result>>
    /\ UNCHANGED <<connection, is_success, seqVars, seqFrame>>

\* 425-428: anything raised in the try: rollback, return False
RsExcept ==
    /\ pc = "rs_except"
    /\ conns' = DbEndTransaction(conns, connection)
    /\ result' = Returned(FALSE)
    /\ pc' = "rs_done"
    /\ UNCHANGED <<connection, committed, is_success, seqVars, seqFrame>>

\* users publishes its ids under "user_ids"; orders takes a user id into its
\* second column; the two configs come in either order
RsNoParent == <<"none", 0>>
RsConfigs ==
    LET users(n) == [table_name |-> "users", columns |-> <<"id">>,
                     data |-> [k \in 1..n |-> << <<"users", k>> >>],
                     foreign_key_mapping |-> <<>>, id_mapping_key |-> <<"user_ids">>]
        orders(n) == [table_name |-> "orders", columns |-> <<"id", "user_id">>,
                      data |-> [k \in 1..n |-> << <<"orders", k>>, RsNoParent >>],
                      foreign_key_mapping |-> <<[column_index |-> 1, parent_table |-> "users",
                                                 parent_mapping_key |-> "user_ids"]>>,
                      id_mapping_key |-> <<>>]
    IN  UNION {{<<users(nu), orders(no)>>, <<orders(no), users(nu)>>} :
               nu \in 0..MaxRows, no \in 0..MaxRows}

InitRelationships ==
    /\ pc = "rs_start"
    /\ result = "none"
    /\ table_configs \in RsConfigs
    /\ ordered_configs = NotResolved
    /\ data_list = <<>>
    /\ batch_size \in 1..MaxBatchSize
    /\ auto_optimize \in BOOLEAN
    /\ committed = EmptyBag
    /\ \/ connection = NoConn /\ conns = <<>>
       \/ connection = MainConn /\ conns = ConnectedBefore
    /\ is_success = TRUE /\ IdleSeq /\ IdleMt /\ IdleRel /\ IdleForm /\ IdleFk
    /\ checkpoint_file = AbsentFile
    /\ checkpoint = ZeroCheckpoint
    /\ start_index = 0 /\ table_i = 0
    /\ next_id = <<>>
    /\ runs = 1 /\ run_log = <<>>
    /\ caller = "relationships"
    /\ io_failures = 0
    /\ IdleMulti /\ IdleRs

NextRelationships ==
    \/ RsConnect
    \/ RsResolve
    \/ RsNextTable
    \/ SeqEnsureConnection
    \/ SeqExecuteMany
    \/ SeqCommit
    \/ SeqLoopEnd
    \/ SeqExcept
    \/ RsBatchInsertReturns
    \/ RsCommit
    \/ RsExcept

SpecRelationships == InitRelationships /\ [][NextRelationships]_vars

\* 379-396: the caller invokes batch_insert_with_relationships once more on the
\* same processor with the same configs: the locals of the call start anew,
\* while self.connection, the database and self._id_mappings (created at
\* 490-491 only when the attribute is missing, deleted nowhere) stay
RsCallAgain ==
    /\ pc = "rs_done"
    /\ runs < MaxRuns
    /\ runs' = runs + 1
    /\ pc' = "rs_start"
    /\ result' = "none"
    /\ ordered_configs' = NotResolved
    /\ data_list' = <<>>
    /\ is_success' = TRUE
    /\ loop_k' = 1 /\ exec_log' = <<>>
    /\ table_pos' = 1
    /\ run_log' = <<>>
    /\ UNCHANGED <<table_configs, batch_size, auto_optimize, dbVars, mtVars, table_batches,
                   batch_idx, formed, fkVars, checkpoint_file, checkpoint, start_index,
                   table_i, next_id, caller, io_failures, multiVars, rsVars>>

NextRelationshipsAgain ==
    \/ NextRelationships
    \/ RsCallAgain

SpecRelationshipsAgain == InitRelationships /\ [][NextRelationshipsAgain]_vars

\* --------------------------------------------------------------- claim C29
\* a call begins on a processor whose previous call returned True
BeginsAfterCompletedRun == pc = "rs_done" /\ result = "True" /\ pc' = "rs_start"
\* the mapping keys under which _get_saved_id_mapping finds ids
SavedKeys(saved) == {k \in DOMAIN saved : GetSavedIdMapping(saved, k) # <<>>}
\* C29: the registry is created fresh at the start of each run and discarded
\* at successful completion: a call of batch_insert_with_relationships on a
\* processor that already completed an earlier call begins with no ID mapping
\* entry left over from that call.
C29_RegistryFreshEachRun ==
    [][BeginsAfterCompletedRun => SavedKeys(id_mappings') = {}]_vars

\* the later call reads, while it rewrites the foreign keys of a table, a
\* registry that still holds what the earlier call saved: nothing of the
\* later call has been saved yet
C29_LeftoverSeen ==
    /\ runs > 1
    /\ pc = "rs_table" /\ table_pos = 1
    /\ SavedKeys(id_mappings) # {}

\* --------------------------------------------------------------- claim C33
\* batch_insert is about to be called with the rows of the current table
RsRowsHandedOver == pc = "seq_start" /\ table_pos \in DOMAIN ordered_configs.order
\* the cell of row r that mapping m declares as a foreign key holds an id
\* saved for the parent
RsCellRewritten(r, m) ==
    data_list[r][m.column_index + 1] \in
        Range(GetSavedIdMapping(id_mappings, m.parent_mapping_key))
\* C33: in batch_insert_with_relationships _update_foreign_keys either puts a
\* recorded parent id into every declared foreign-key cell or fails with a
\* missing-mapping error: no row is handed to the database with a declared
\* foreign-key cell that was not rewritten.
C33_RewrittenOrMissingMappingError ==
    RsRowsHandedOver =>
        \A r \in DOMAIN data_list :
            \A m \in Range(RsConfigAt(table_pos).foreign_key_mapping) : RsCellRewritten(r, m)

\* the run the claim excludes: users has no row, so no id is saved under
\* "user_ids"; the order row reaches the database with its placeholder and
\* the call returns True
C33_UnrewrittenInserted ==
    /\ pc = "rs_done" /\ result = "True"
    /\ GetSavedIdMapping(id_mappings, "user_ids") = <<>>
    /\ \E row \in BagToSet(committed) : row[1][1] = "orders" /\ row[2] = RsNoParent

\* ------------------------------------- notions of a relationships run
\* positions (in resolution order) of the tables whose batch_insert returned False
RsFailedPositions == {k \in DOMAIN run_log : run_log[k] = "False"}
RsTableAt(pos) == ordered_configs.order[pos]
\* committed rows of table t (the first cell of a row is <<table, k>>)
RsCommittedOf(t) == {row \in BagToSet(committed) : row[1][1] = t}

\* C12 (as claimed): when a batch of a table is rejected by the database, the
\* call returns failure, no later table is inserted, and the failed table's
\* ids are not published to the ID mapping.
C12_FailureSurfaced ==
    (pc = "rs_done" /\ RsFailedPositions # {}) =>
        /\ result = "False"
        /\ \A k \in RsFailedPositions :
              /\ \A p \in DOMAIN ordered_configs.order :
                    p > k => RsCommittedOf(RsTableAt(p)) = {}
              /\ \A key \in Range(RsConfigAt(k).id_mapping_key) : key \notin DOMAIN id_mappings

\* the registry holds entries for table number i (1-based) of the configuration
RegistryHolds(i) ==
    /\ table_configs[i].table_name \in DOMAIN id_mapping
    /\ DOMAIN id_mapping[table_configs[i].table_name] # {}

TableVisible(i) ==
    /\ connection \in DOMAIN conns
    /\ \A r \in DOMAIN table_configs[i].data_list :
          \E row \in VisibleRows(committed, conns, connection) :
              /\ row.table = table_configs[i].table_name
              /\ row.values[1] = table_configs[i].data_list[r][1]

AssignedIds(t, key) ==
    {row.id : row \in {x \in Range(conns[connection].pending) :
                          x.table = t /\ x.values[1] = key}}
\* the registry maps the first cell of every row of the table just inserted to
\* the id the database gave that row
CurrentTableRecorded ==
    \A r \in DOMAIN InsConfig.data_list :
        /\ MappingHas(id_mapping, InsConfig.table_name, InsConfig.data_list[r][1])
        /\ id_mapping[InsConfig.table_name][InsConfig.data_list[r][1]]
              \in AssignedIds(InsConfig.table_name, InsConfig.data_list[r][1])
\* the table just inserted has returned to the table loop, which has not yet
\* touched the next table
TableJustInserted ==
    /\ pc \in {"ck_save", "multi_next"}
    /\ InsConfig.mapping_key # <<>>
\* a committed row of the table just inserted carries the key of one of its rows
KeyAlreadyStored ==
    \E row \in BagToSet(committed) : \E r \in DOMAIN InsConfig.data_list :
        /\ row.table = InsConfig.table_name
        /\ row.values[1] = InsConfig.data_list[r][1]

\* C14 (as claimed): when a table with a mapping key has been inserted, the
\* registry maps the logical key of every row to the id the database assigned
\* to that row, before the next table is rewritten or inserted.
C14_EveryRowRecorded ==
    TableJustInserted => CurrentTableRecorded

\* C14 on a table that held no committed row with the logical key of one of
\* the inserted rows when the SELECT of _update_id_mapping ran: every row is
\* recorded with its own id.
C14_EveryNewKeyRecorded ==
    (TableJustInserted /\ ~KeyAlreadyStored) => CurrentTableRecorded

\* two users were inserted and recorded, orders has not been touched
C14_Witness ==
    /\ TableJustInserted /\ ~KeyAlreadyStored
    /\ table_i = 0 /\ Len(InsConfig.data_list) = 2
    /\ CurrentTableRecorded
    /\ \A e \in Range(exec_log) : e.table = "users"

\* the records the SELECT of _update_id_mapping returns for the current table
InsSelected ==
    SelectIdAndKey(VisibleRows(committed, conns, connection), InsConfig.table_name,
                   InsConfig.columns, InsConfig.mapping_key[1],
                   Range(KeyIndices(InsConfig.data_list)))
\* the loop of 132-133 is about to record a logical key that is already mapped:
\* the key is in the registry of the table, or two records carry it
RecordsMappedKey ==
    /\ pc = "ins_map"
    /\ \E rec \in InsSelected :
          \/ MappingHas(id_mapping, InsConfig.table_name, rec[2])
          \/ \E other \in InsSelected : other[2] = rec[2] /\ other[1] # rec[1]

\* C15 (as claimed): recording a logical key that is already mapped for the
\* table fails (DuplicateKeyError: the run takes its error path) and leaves
\* the registry unchanged; no run silently overwrites an entry.
C15_DuplicateKeyRejected ==
    [][RecordsMappedKey => (pc' = InsRaiseTo /\ id_mapping' = id_mapping)]_vars

\* position (1-based) of table t in the configuration
TableIndex(t) == CHOOSE i \in DOMAIN table_configs : table_configs[i].table_name = t

\* C16: a run that found a checkpoint with a positive count issues no insert
\* for a table below that count, enters the tables from the first incomplete
\* one on in sequence, and rewrites the foreign keys of the first incomplete
\* table with the registry restored from the checkpoint.
C16_ResumeSkipsCompleted ==
    start_index > 0 =>
        /\ \A k \in DOMAIN exec_log : TableIndex(exec_log[k].table) > start_index
        /\ pc \in {"ins_fk", "ins_exec", "ins_map", "ck_save"} =>
              /\ table_i >= start_index
              /\ table_i = start_index \/ checkpoint.completed_tables = table_i
        /\ (pc \in {"ins_fk", "ins_exec", "ins_map"} /\ table_i = start_index) =>
              /\ start_index = checkpoint.completed_tables
              /\ checkpoint = LoadCheckpoint(checkpoint_file)
              /\ pc # "ins_fk" =>
                    processed_data = ProcessForeignKeys(InsConfig.data_list, InsConfig.columns,
                                                        checkpoint.id_mapping, InsConfig)

\* a resumed run has sent the orders to the database, their user references
\* rewritten with the ids of the checkpoint, and nothing for users
C16_Witness ==
    /\ runs = 2 /\ start_index = 1 /\ table_i = 1
    /\ pc = "ins_exec"
    /\ Len(exec_log) >= 1
    /\ exec_log[1].table = "orders"
    /\ MappingHas(checkpoint.id_mapping, "users", InsConfig.data_list[1][2])
    /\ exec_log[1].batch[1][2] = checkpoint.id_mapping["users"][InsConfig.data_list[1][2]]

\* the registry an uninterrupted run over all tables leaves on the database
\* the first run found (empty tables, counters at 1): row r of a table with a
\* mapping key gets the id r
UninterruptedRegistry ==
    [t \in {table_configs[i].table_name :
                i \in {j \in DOMAIN table_configs : table_configs[j].mapping_key # <<>>}} |->
        [key \in Range(KeyIndices(CfgOfTable(t).data_list)) |->
            CHOOSE r \in DOMAIN CfgOfTable(t).data_list : CfgOfTable(t).data_list[r][1] = key]]
\* a run that started from a checkpoint has returned True
ResumedRunDone ==
    pc = "ck_done" /\ result = "True" /\ start_index > 0
\* the first run has returned True
FirstRunDone ==
    pc = "ck_done" /\ result = "True" /\ runs = 1

\* the reference of C17: an uninterrupted first run ends with UninterruptedRegistry
C17_Reference ==
    FirstRunDone => id_mapping = UninterruptedRegistry

\* C17 (as claimed): a run that starts from the checkpoint recorded after
\* table k ends with the identical final registry as an uninterrupted run of
\* the same configuration.
C17_ResumeIdempotent ==
    ResumedRunDone => id_mapping = UninterruptedRegistry

\* the registry of a finished resumed run has, for every table with a mapping
\* key, the logical keys of an uninterrupted run, and maps the keys of the
\* tables the run inserted to committed rows carrying them
ResumedRegistryComplete ==
    \A i \in DOMAIN table_configs :
        table_configs[i].mapping_key # <<>> =>
            /\ table_configs[i].table_name \in DOMAIN id_mapping
            /\ DOMAIN id_mapping[table_configs[i].table_name]
                  = DOMAIN UninterruptedRegistry[table_configs[i].table_name]
            /\ i > start_index =>
                  \A key \in DOMAIN id_mapping[table_configs[i].table_name] :
                      \E row \in BagToSet(committed) :
                          /\ row.table = table_configs[i].table_name
                          /\ row.values[1] = key
                          /\ row.id = id_mapping[table_configs[i].table_name][key]
\* a step inside a run leaves the entries of the tables below the start index
\* as the checkpoint gave them
RestoredEntriesKept ==
    (pc \notin {"ck_start", "ck_connect", "ck_begin", "ck_done"}) =>
        \A i \in 1..start_index :
            table_configs[i].table_name \in DOMAIN id_mapping =>
                /\ table_configs[i].table_name \in DOMAIN id_mapping'
                /\ id_mapping'[table_configs[i].table_name]
                      = id_mapping[table_configs[i].table_name]

\* C17 (amended): a run that starts from the checkpoint recorded after table k
\* and returns True ends with a registry over the same logical keys as an
\* uninterrupted run; the entries of tables 0..k are those of the checkpoint,
\* unchanged, and the entries of the later tables are the ids of the rows the
\* run committed.  The ids of the later tables need not be those of an
\* uninterrupted run.
C17_ResumeSameKeys ==
    /\ [](ResumedRunDone => ResumedRegistryComplete)
    /\ [][RestoredEntriesKept]_vars

\* a resumed run has ended with the keys of an uninterrupted run and another
\* id for an order
C17_Witness ==
    /\ ResumedRunDone /\ start_index = 1
    /\ ResumedRegistryComplete
    /\ Len(table_configs[2].data_list) >= 1
    /\ id_mapping["users"] = UninterruptedRegistry["users"]
    /\ id_mapping["orders"] # UninterruptedRegistry["orders"]

\* the count a load of the file would find (0 when there is no readable file)
FileCount(file) == file.completed_tables
\* the batches of table t handed to executemany in this run, in order
ExecutedBatches(t) ==
    LET ks == ExecutedFor(t)
        Nth(n) == CHOOSE k \in ks : Cardinality({j \in ks : j <= k}) = n
    IN  [n \in 1..Cardinality(ks) |-> exec_log[Nth(n)].batch]
\* the current table is complete: every row went through executemany without
\* an error, its keys are in the registry, no later table has been touched
CurrentTableDone ==
    /\ \A k \in DOMAIN exec_log :
          ~exec_log[k].raised /\ TableIndex(exec_log[k].table) <= table_i + 1
    /\ Flatten(ExecutedBatches(InsConfig.table_name)) = processed_data.rows
    /\ Len(processed_data.rows) = Len(InsConfig.data_list)
    /\ InsConfig.mapping_key # <<>> =>
          \A r \in DOMAIN InsConfig.data_list :
              MappingHas(id_mapping, InsConfig.table_name, InsConfig.data_list[r][1])
\* a step changes the file only as the save after a table or as the removal
\* after the commit; a save that goes through stores the index of the table
\* plus one and the registry, a save that fails leaves the file or breaks it
FileStep ==
    checkpoint_file' # checkpoint_file =>
        \/ /\ pc = "ck_save"
           /\ table_i' = table_i + 1
           /\ \/ /\ checkpoint_file'.state = "saved"
                 /\ checkpoint_file'.completed_tables = table_i + 1
                 /\ checkpoint_file'.id_mapping =
                       [t \in DOMAIN id_mapping |-> JsonObject(id_mapping[t])]
              \/ /\ checkpoint_file' = CorruptFile
                 /\ io_failures' = io_failures + 1
        \/ /\ pc = "ck_remove"
           /\ checkpoint_file' = AbsentFile
\* the count on file does not go down, the removal after success apart
CountKept ==
    \/ FileCount(checkpoint_file') >= FileCount(checkpoint_file)
    \/ pc = "ck_remove"

\* C18 (as claimed): every save after a table leaves completed_tables = index
\* + 1 and the current registry on file, and the persisted count never
\* decreases.
C18_CheckpointEveryTable ==
    /\ [][pc = "ck_save" =>
             /\ checkpoint_file'.state = "saved"
             /\ checkpoint_file'.completed_tables = table_i + 1]_vars
    /\ [][CountKept]_vars

\* C18 (amended): the checkpoint is saved once per table, after the table's
\* inserts and registry update and before the next table starts, and never for
\* a table whose insertion failed; a save that succeeds stores index + 1 and
\* the current registry, a save that fails is ignored and leaves the old file
\* or an unreadable one.  As long as no file operation has failed the count on
\* file never decreases until the run removes the file.
C18_CheckpointAfterTable ==
    /\ [](pc = "ck_save" => CurrentTableDone)
    /\ [][FileStep]_vars
    /\ [][io_failures' = 0 => CountKept]_vars

\* the checkpoint of orders has been written over the one of users
C18_Witness ==
    /\ pc = "ck_loop" /\ table_i = 2
    /\ checkpoint_file.state = "saved" /\ checkpoint_file.completed_tables = 2
    /\ Len(exec_log) >= 2
    /\ MappingHas(checkpoint_file.id_mapping, "orders", table_configs[2].data_list[1][1])

\* the run has returned False because a table failed: its foreign keys could not
\* be resolved or one of its batches was rejected
TableFailed ==
    /\ pc = "ck_done" /\ result = "False"
    /\ \/ processed_data.raised # "none"
       \/ exec_log # <<>> /\ exec_log[Len(exec_log)].raised
\* the file holds the checkpoint of the last completed table
LastCheckpointPresent ==
    table_i > 0 =>
        /\ checkpoint_file.state = "saved"
        /\ checkpoint_file.completed_tables = table_i

\* C19 (as claimed): after the run returns True no checkpoint file remains;
\* after it returns False because a table failed, the checkpoint written for
\* the last completed table is still present.
C19_RemovedExactlyOnSuccess ==
    /\ (pc = "ck_done" /\ result = "True") => checkpoint_file.state = "absent"
    /\ TableFailed => LastCheckpointPresent

\* C19 (amended): the file is removed only by the removal that follows the
\* commit, and a run that ends in failure leaves the file as it is; when no
\* checkpoint-file operation has failed, no file remains after True and the
\* checkpoint of the last completed table is present after a table failed.  A
\* removal that fails is ignored and the run returns True with the file in place.
C19_RemovedOnlyOnSuccess ==
    /\ [](io_failures = 0 => C19_RemovedExactlyOnSuccess)
    /\ [][(checkpoint_file.state # "absent" /\ checkpoint_file'.state = "absent")
             => (pc = "ck_remove" /\ result' = "True")]_vars
    /\ [][(pc = "ck_remove" /\ checkpoint_file' # AbsentFile)
             => (checkpoint_file' = checkpoint_file /\ io_failures' = io_failures + 1
                   /\ result' = "True")]_vars
    /\ [][result' = "False" => checkpoint_file' = checkpoint_file]_vars

\* the orders were rejected and the checkpoint written after users is on file
C19_Witness ==
    /\ TableFailed /\ io_failures = 0
    /\ table_i = 1
    /\ LastCheckpointPresent
    /\ exec_log # <<>>
    /\ exec_log[Len(exec_log)].table = "orders"

\* the load found no file, an unreadable file, or could not read the file
LoadFindsNothing ==
    /\ pc = "ck_start"
    /\ checkpoint_file.state # "saved" \/ io_failures' # io_failures

\* C20: _load_checkpoint never raises: the call always goes on to connect; when
\* there is no file, or the file cannot be read or parsed, it returns the
\* zero-value checkpoint, and the run then starts as a fresh run: at the first
\* table with an empty registry.
C20_LoadFallsBackToZero ==
    /\ [][pc = "ck_start" => (pc' = "ck_connect" /\ result' = result)]_vars
    /\ [][LoadFindsNothing => checkpoint' = ZeroCheckpoint]_vars
    /\ [][(pc = "ck_begin" /\ checkpoint = ZeroCheckpoint)
             => (start_index' = 0 /\ table_i' = 0 /\ id_mapping' = <<>>)]_vars
    /\ []((pc = "ck_loop" /\ checkpoint = ZeroCheckpoint)
             => (start_index = 0 /\ table_i = 0 /\ id_mapping = <<>>))

\* a second call found an unreadable file and stands at the first table with
\* an empty registry
C20_Witness ==
    /\ runs = 2 /\ pc = "ck_loop"
    /\ checkpoint_file.state = "corrupt"
    /\ checkpoint = ZeroCheckpoint
    /\ start_index = 0 /\ table_i = 0 /\ id_mapping = <<>>

\* a step of the save after a table goes on to the next table, and a step of
\* the removal returns True, with the database, the registry and the result as
\* a successful file operation leaves them
FileOperationHarmless ==
    /\ pc = "ck_save" =>
          /\ pc' = "ck_loop" /\ table_i' = table_i + 1
          /\ checkpoint' = [completed_tables |-> table_i + 1, id_mapping |-> id_mapping]
          /\ UNCHANGED <<result, dbVars, fkVars, start_index, next_id>>
    /\ pc = "ck_remove" =>
          /\ pc' = "ck_done" /\ result' = "True"
          /\ UNCHANGED <<dbVars, fkVars, checkpoint, start_index, table_i, next_id>>

\* C21: a failure to write or to delete the checkpoint file never fails the
\* run: the run goes on with the next table (or returns True), and its result
\* and the database are those of a run whose file operation succeeded.
C21_CheckpointFailureHarmless ==
    [][FileOperationHarmless]_vars

\* the first call has committed its rows and returned True although a
\* checkpoint-file operation failed on the way
C21_Witness ==
    /\ pc = "ck_done" /\ result = "True" /\ runs = 1
    /\ io_failures = 1
    /\ committed # EmptyBag
    /\ TableCommitted(1) /\ TableCommitted(2)

\* an entry point of the executors has returned
BatchExecuteReturned == pc \in {"seq_done", "mt_done"}
\* the sessions the run used: the main connection in the sequential mode, the
\* sessions of process_batch in the concurrent mode
UsedByRun ==
    {c \in DOMAIN conns : IF use_multithreading THEN c[1] = "local" ELSE c = connection}
\* the sessions the run used that are still open with the bulk-load settings
LeftOptimized ==
    {c \in UsedByRun : conns[c].state = "open" /\ conns[c].settings = BulkSettings}

\* C22 (as claimed): when batch_execute of a processor with auto_optimize
\* returns, in either mode, with success or after a failure, no connection used
\* by the run is left with the bulk-load settings applied.
C22_SettingsRestoredOnExit ==
    (BatchExecuteReturned /\ auto_optimize) => LeftOptimized = {}

\* the sessions of process_batch that went through _apply_bulk_optimizations
\* and then _restore_bulk_optimizations (and were closed)
AppliedAndRestored ==
    {c \in DOMAIN conns : c[1] = "local" /\ conns[c].state = "closed" /\ auto_optimize}

\* C23 (as claimed): after _apply_bulk_optimizations followed by
\* _restore_bulk_optimizations, autocommit, unique_checks and foreign_key_checks
\* have the values the session had before the apply (those pymysql.connect
\* opened it with).
C23_RestoreReturnsOriginal ==
    \A c \in AppliedAndRestored : conns[c].settings = DefaultSettings

\* the call is at or before its connect()
BeforeConnect == pc \in {"ck_start", "ck_connect", "multi_start", "rel_start"}
\* the step in which connect() fails
ConnectFails ==
    /\ pc \in {"ck_connect", "multi_start", "rel_start"}
    /\ pc' \notin {"ck_begin", "multi_begin", "rel_resolve"}
\* batch_insert_with_checkpoint has returned without a connection of its own
ReturnedUnconnected ==
    pc = "ck_done" /\ connection # CkConn

\* C24: when the connection cannot be established the call returns False
\* before any table starts: no statement has been issued for any table, the
\* database is as it was, and an existing checkpoint file is left unchanged.
C24_ConnectionFailureAborts ==
    /\ [][BeforeConnect => UNCHANGED <<checkpoint_file, committed, exec_log>>]_vars
    /\ [][ConnectFails =>
             /\ pc' \in {"ck_done", "multi_done", "rel_done"}
             /\ result' = "False"
             /\ UNCHANGED <<conns, connection>>]_vars
    /\ [](ReturnedUnconnected =>
             /\ result = "False"
             /\ exec_log = <<>>
             /\ \A c \in DOMAIN conns : conns[c].pending = <<>>)

\* the second call could not connect and has left the checkpoint of the first
\* call on file
C24_Witness ==
    /\ ReturnedUnconnected /\ runs = 2
    /\ result = "False"
    /\ checkpoint_file.state = "saved" /\ checkpoint_file.completed_tables = 1
    /\ exec_log = <<>>

\* the rewrite or the insert of a table of the run has failed
SomeTableFailed ==
    \/ processed_data.raised # "none"
    \/ \E k \in DOMAIN exec_log : exec_log[k].raised
\* rows of the configuration, all tables together
RECURSIVE TotalRows(_)
TotalRows(i) ==
    IF i = 0 THEN 0 ELSE Len(table_configs[i].data_list) + TotalRows(i - 1)
\* no session holds rows that are executed and not committed
NothingPending == \A c \in DOMAIN conns : conns[c].pending = <<>>

\* C25: batch_insert_multiple_tables inserts all tables in one transaction:
\* nothing is committed before its single commit; if it returns True the rows
\* of every table are committed; if the rewrite or the insert of a table fails
\* it returns False and no row of any table is or stays committed.
C25_OneTransaction ==
    /\ pc \notin {"multi_finally", "multi_done"} => committed = EmptyBag
    /\ (pc = "multi_done" /\ result = "True") =>
          /\ \A i \in DOMAIN table_configs : TableCommitted(i)
          /\ BagCardinality(committed) = TotalRows(Len(table_configs))
          /\ NothingPending
    /\ (pc = "multi_done" /\ SomeTableFailed) => result = "False"
    /\ (pc = "multi_done" /\ result = "False") => (committed = EmptyBag /\ NothingPending)

\* the users went through executemany, the orders were rejected, and the call
\* returned False with nothing committed
C25_Witness ==
    /\ pc = "multi_done" /\ result = "False"
    /\ committed = EmptyBag /\ NothingPending
    /\ \E k \in DOMAIN exec_log : exec_log[k].table = "users" /\ ~exec_log[k].raised
    /\ \E k \in DOMAIN exec_log : exec_log[k].table = "orders" /\ exec_log[k].raised

\* batch_insert_multiple_tables or batch_insert_with_checkpoint is back at its caller
CallReturned == pc \in {"multi_done", "ck_done"}

\* C26: the caller of batch_insert_multiple_tables and of
\* batch_insert_with_checkpoint always gets True or False: a failed connect, a
\* missing mapping and a rejected batch give False, and no exception of the
\* rewrite or of a batch reaches the caller.
C26_SingleBooleanResult ==
    CallReturned =>
        /\ result \in {"True", "False"}
        /\ connection # CkConn => result = "False"
        /\ SomeTableFailed => result = "False"

\* the call has returned False after a row named a key that has no id
C26_Witness ==
    /\ CallReturned /\ result = "False"
    /\ processed_data.raised # "none"
    /\ exec_log # <<>>

\* ===== a checkpoint saved and loaded back (MutiTableBatchDeal.py 240-256)
RtMaxCount == 2
RtMaxId == 2
\* logical keys of the scalar types of a row: a str, an int, a timestamp, each
\* with its printed form
RtKeys == {<<"str", "1">>, <<"int", "1">>, <<"ts", "1">>}
\* the checkpoints a run can hold: a count and a registry of one table
RtCheckpoints ==
    {[completed_tables |-> n, id_mapping |-> ("users" :> m)] :
        n \in 0..RtMaxCount,
        m \in UNION {[ks -> 1..RtMaxId] : ks \in SUBSET RtKeys}}
\* 254 json.dump(checkpoint, f): a dict key must be a str, int, float, bool or
\* None, anything else raises TypeError after open(..., 'w') emptied the file
Dumpable(ck) ==
    \A t \in DOMAIN ck.id_mapping : \A k \in DOMAIN ck.id_mapping[t] : k[1] \in {"str", "int"}
DumpedFile(ck) == IF Dumpable(ck) THEN SavedFile(ck) ELSE CorruptFile

\* 250-256 _save_checkpoint(checkpoint, checkpoint_file)
RtSaveCheckpoint ==
    /\ pc = "rt_start"
    /\ checkpoint_file' = DumpedFile(checkpoint)
    /\ pc' = "rt_saved"
    /\ UNCHANGED <<result, table_configs, dbVars, loop_k, fkVars, ckFrame, checkpoint,
                   start_index, table_i, next_id, runs, run_log, caller, io_failures>>

\* 240-248 _load_checkpoint(checkpoint_file), read as 216-217 read it
RtLoadCheckpoint ==
    /\ pc = "rt_saved"
    /\ start_index' = LoadCheckpoint(checkpoint_file).completed_tables
    /\ id_mapping' = LoadCheckpoint(checkpoint_file).id_mapping
    /\ pc' = "rt_loaded"
    /\ UNCHANGED <<result, table_configs, dbVars, loop_k, processed_data, ckFrame,
                   checkpoint_file, checkpoint, table_i, next_id, runs, run_log, caller,
                   io_failures>>

InitRoundTrip ==
    /\ pc = "rt_start"
    /\ result = "none"
    /\ IdleResolver /\ IdleInput /\ IdleDb /\ is_success = TRUE /\ IdleSeq /\ IdleMt /\ IdleRel
    /\ IdleForm /\ IdleFk
    /\ checkpoint_file = AbsentFile
    /\ checkpoint \in RtCheckpoints
    /\ start_index = 0 /\ table_i = 0
    /\ next_id = <<>>
    /\ runs = 0 /\ run_log = <<>>
    /\ caller = "none"
    /\ io_failures = 0
    /\ IdleMulti /\ IdleRs

NextRoundTrip ==
    \/ RtSaveCheckpoint
    \/ RtLoadCheckpoint

SpecRoundTrip == InitRoundTrip /\ [][NextRoundTrip]_vars

\* C27 (as claimed): a checkpoint saved with _save_checkpoint and loaded back
\* with _load_checkpoint has the same count and the same id mapping, for
\* logical keys of every scalar type, text and integer keys among them.
C27_CheckpointRoundTrip ==
    pc = "rt_loaded" =>
        /\ start_index = checkpoint.completed_tables
        /\ id_mapping = checkpoint.id_mapping

\* C27 for text keys: a checkpoint whose logical keys are all of type str comes
\* back unchanged.
C27_TextKeysRoundTrip ==
    (pc = "rt_loaded" /\ \A k \in DOMAIN checkpoint.id_mapping["users"] : k[1] = "str") =>
        /\ start_index = checkpoint.completed_tables
        /\ id_mapping = checkpoint.id_mapping

====
